---- MODULE Spec2Model ----
(***************************************************************************)
(* Secure Command Execution Engine of claude-secure-terminal (v1.0.6):     *)
(* the policy store (default lists + overrides), the configuration tools,  *)
(* the command validator and the process runner of src/server/index.js.    *)
(*                                                                         *)
(* Strings are sequences of one-character strings, so that trim(), the     *)
(* split on whitespace, the name pattern and path resolution are computed. *)
(***************************************************************************)
EXTENDS Integers, Sequences, FiniteSets, TLC

\* ------------------------------------------------------------------------
\* Bounds of the model
\* ------------------------------------------------------------------------
MaxChanges == 2       \* configuration changes accepted in Spec
MaxRuns == 1          \* executions spawned in SpecExec
MaxChunks == 1        \* 'data' events per output stream of a child
MaxExec == 1          \* execute_command calls in flight
MaxCfg == 1           \* configuration tool calls in flight
MaxText == 6          \* characters of captured output in SpecTruncate
MaxLog == 3           \* lines of the audit log in SpecHistory
MaxLimit == 2         \* largest limit passed to search_command_history
MaxCalls == 1         \* audited tool calls in SpecEngine

\* ------------------------------------------------------------------------
\* Generic array helpers (Array.prototype.includes / filter / push / concat)
\* ------------------------------------------------------------------------
Range(s) == { s[i] : i \in 1..Len(s) }

Includes(arr, x) == \E i \in 1..Len(arr) : arr[i] = x

Without(arr, x) == SelectSeq(arr, LAMBDA c : c # x)

RECURSIVE PushMissing(_, _)
PushMissing(base, extra) ==
  IF extra = <<>> THEN base
  ELSE PushMissing(IF Includes(base, Head(extra)) THEN base
                   ELSE Append(base, Head(extra)), Tail(extra))

\* ------------------------------------------------------------------------
\* Default secure command lists
\* ------------------------------------------------------------------------
DEFAULT_ALLOWED ==
  << <<"l","s">>, <<"c","a","t">>, <<"g","r","e","p">>, <<"f","i","n","d">>,
     <<"w","c">>, <<"f","i","l","e">>, <<"s","t","a","t">>, <<"p","s">>,
     <<"t","o","p">>, <<"d","f">>, <<"d","u">>, <<"w","h","o","a","m","i">>,
     <<"d","a","t","e">>, <<"w","h","i","c","h">>,
     <<"u","p","t","i","m","e">>, <<"e","c","h","o">>, <<"g","i","t">>,
     <<"n","p","m">>, <<"p","i","p">>, <<"p","y","t","h","o","n","3">>,
     <<"n","o","d","e">>, <<"c","u","r","l">>, <<"w","g","e","t">>,
     <<"t","a","r">>, <<"z","i","p">>, <<"u","n","z","i","p">>,
     <<"j","q">> >>

DEFAULT_BLOCKED ==
  << <<"r","m">>, <<"s","u","d","o">>, <<"s","u">>,
     <<"p","a","s","s","w","d">>, <<"s","h","u","t","d","o","w","n">>,
     <<"r","e","b","o","o","t">>, <<"m","k","f","s">>,
     <<"f","d","i","s","k">>, <<"d","d">>, <<"c","h","m","o","d">>,
     <<"c","h","o","w","n">>, <<"m","o","u","n","t">>,
     <<"u","m","o","u","n","t">>, <<"k","i","l","l">>,
     <<"k","i","l","l","a","l","l">> >>

dangerous ==
  << <<"r","m">>, <<"s","u","d","o">>, <<"d","d">>, <<"m","k","f","s">>,
     <<"f","d","i","s","k">>, <<"s","h","u","t","d","o","w","n">>,
     <<"r","e","b","o","o","t">> >>

\* ------------------------------------------------------------------------
\* String helpers: String.prototype.trim and /^[a-zA-Z0-9_-]+$/.test
\* ------------------------------------------------------------------------
WhiteSpace == { " ", "\t", "\n" }

NameChars ==
  { "a","b","c","d","e","f","g","h","i","j","k","l","m","n","o","p","q","r",
    "s","t","u","v","w","x","y","z",
    "A","B","C","D","E","F","G","H","I","J","K","L","M","N","O","P","Q","R",
    "S","T","U","V","W","X","Y","Z",
    "0","1","2","3","4","5","6","7","8","9","_","-" }

RECURSIVE TrimStart(_)
TrimStart(s) ==
  IF s # <<>> /\ Head(s) \in WhiteSpace THEN TrimStart(Tail(s)) ELSE s

RECURSIVE TrimEnd(_)
TrimEnd(s) ==
  IF s # <<>> /\ s[Len(s)] \in WhiteSpace
  THEN TrimEnd(SubSeq(s, 1, Len(s) - 1)) ELSE s

Trim(s) == TrimEnd(TrimStart(s))

StartsWith(s, prefix) ==
  /\ Len(prefix) <= Len(s)
  /\ SubSeq(s, 1, Len(prefix)) = prefix

\* String.prototype.split on a single-character separator: the pieces
\* between separators, empty pieces included.
RECURSIVE SplitOn(_, _, _)
SplitOn(s, sep, piece) ==
  IF s = <<>> THEN <<piece>>
  ELSE IF Head(s) = sep THEN <<piece>> \o SplitOn(Tail(s), sep, <<>>)
  ELSE SplitOn(Tail(s), sep, Append(piece, Head(s)))

\* String.prototype.split(/\s+/): a run of whitespace is one separator.
RECURSIVE SplitWhite(_, _)
SplitWhite(s, piece) ==
  IF s = <<>> THEN <<piece>>
  ELSE IF Head(s) \in WhiteSpace
  THEN <<piece>> \o SplitWhite(TrimStart(s), <<>>)
  ELSE SplitWhite(Tail(s), Append(piece, Head(s)))

\* Array.prototype.join
RECURSIVE Join(_, _)
Join(pieces, sep) ==
  IF pieces = <<>> THEN <<>>
  ELSE IF Len(pieces) = 1 THEN Head(pieces)
  ELSE Head(pieces) \o sep \o Join(Tail(pieces), sep)

\* Decimal digits of a natural number (template-literal formatting)
Digit(d) == <<"0","1","2","3","4","5","6","7","8","9">>[d + 1]

RECURSIVE Decimal(_)
Decimal(n) == IF n < 10 THEN <<Digit(n)>> ELSE Append(Decimal(n \div 10), Digit(n % 10))

\* Variant of NamePattern that accepts any non-empty string
NamePattern_nonEmpty(s) == Len(s) > 0

NamePattern(s) == Len(s) > 0 /\ \A i \in 1..Len(s) : s[i] \in NameChars

\* ------------------------------------------------------------------------
\* Names and JSON payloads used as inputs
\* ------------------------------------------------------------------------
ls == <<"l","s">>
rm == <<"r","m">>
vi == <<"v","i">>

\* Arguments of allow_command / block_command
CommandInputs ==
  { ls, rm, vi, <<" ","r","m"," ">>, <<"r"," ","m">>, <<" ">>, <<>> }

\* A JSON value of a payload field: absent, an array, or some other value.
\* An array entry is a string (str = TRUE, v its characters) or not a string.
Absent == [t |-> "absent", v |-> <<>>]
Other == [t |-> "other", v |-> <<>>]
Str(name) == [str |-> TRUE, v |-> name]
NotStr == [str |-> FALSE, v |-> <<>>]
Arr(entries) == [t |-> "array", v |-> entries]

RECURSIVE StrArr(_)
StrArr(names) ==
  IF names = <<>> THEN <<>> ELSE <<Str(Head(names))>> \o StrArr(Tail(names))

\* Variant of Stringify that leaves the block overrides out of the document
Stringify_noBlocks(defined, allow, block) ==
  [parse |-> TRUE,
   allowOverrides |-> IF defined THEN Arr(StrArr(allow)) ELSE Absent,
   blockOverrides |-> IF defined THEN Arr(<<>>) ELSE Absent]

\* JSON.stringify of an object whose two fields are arrays of strings, or
\* undefined (an undefined field is omitted by JSON.stringify).
Stringify(defined, allow, block) ==
  [parse |-> TRUE,
   allowOverrides |-> IF defined THEN Arr(StrArr(allow)) ELSE Absent,
   blockOverrides |-> IF defined THEN Arr(StrArr(block)) ELSE Absent]

Unparseable == [parse |-> FALSE, allowOverrides |-> Absent, blockOverrides |-> Absent]

Doc(a, b) == [parse |-> TRUE, allowOverrides |-> a, blockOverrides |-> b]

ImportInputs ==
  { Unparseable,
    Doc(Absent, Arr(<<>>)),
    Doc(Arr(<<>>), Other),
    Doc(Arr(<<Str(vi)>>), Arr(<<Str(<<"r"," ","m">>)>>)),
    Doc(Arr(<<NotStr>>), Arr(<<>>)),
    Doc(Arr(<<Str(rm)>>), Arr(<<Str(ls)>>)),
    Doc(Arr(<<Str(rm)>>), Arr(<<Str(rm)>>)),
    Doc(Arr(<<Str(ls)>>), Arr(<<Str(ls)>>)) }

\* Contents the config file can have at startup: absent, not parseable, or
\* written by saveConfig in an earlier session.
NoFile == [kind |-> "missing", allowOverrides |-> <<>>, blockOverrides |-> <<>>]
BadFile == [kind |-> "corrupt", allowOverrides |-> <<>>, blockOverrides |-> <<>>]
File(allow, block) == [kind |-> "ok", allowOverrides |-> allow, blockOverrides |-> block]

StartupFiles == { NoFile, BadFile, File(<<>>, <<>>), File(<<rm>>, <<ls>>) }

\* ------------------------------------------------------------------------
\* State
\* ------------------------------------------------------------------------
VARIABLES
  loaded,          \* FALSE while this.allowOverrides/blockOverrides are undefined
  allowOverrides,  \* this.allowOverrides (array of names)
  blockOverrides,  \* this.blockOverrides (array of names)
  loadPc,          \* position of the loadConfig() call started by the constructor
  configFile,      \* content of terminal-config.json
  auditLog,        \* lines of command-audit.log, oldest first
  cfgOps,          \* the configuration tool calls in flight, per caller slot
  exported,        \* the document returned by the latest export_config
  exportedPolicy,  \* history: the effective sets when that document was made
  lastWriter,      \* history: per name, the allow/block call that named it last
  lastResult,      \* the latest result handed back to the transport
  execs,           \* the execute_command calls, per caller slot
  errorLog,        \* number of ERROR lines in terminal-extension.log
  begun,           \* history: audited calls begun (changes accepted, children spawned)
  LOG_ALL_COMMANDS \* process.env.LOG_ALL_COMMANDS, set by the host at startup

\* The names a valid allow/block argument can denote
Names == { Trim(c) : c \in { d \in CommandInputs : NamePattern(Trim(d)) } }

NoWriter == [n \in Names |-> "none"]

vars == <<loaded, allowOverrides, blockOverrides, loadPc, configFile,
          auditLog, cfgOps, exported, exportedPolicy, lastWriter,
          lastResult, execs, errorLog, begun, LOG_ALL_COMMANDS>>

cfgvars == <<allowOverrides, blockOverrides, loadPc, configFile, cfgOps,
             exported, exportedPolicy, lastWriter>>

Idle == [kind |-> "idle", pc |-> "idle"]

NoResult == [op |-> "none", success |-> FALSE, thrown |-> FALSE]

\* ------------------------------------------------------------------------
\* Effective policy
\* ------------------------------------------------------------------------
EffectiveAllowed(allow, block) ==
  PushMissing(SelectSeq(DEFAULT_ALLOWED, LAMBDA cmd : ~Includes(block, cmd)), allow)

EffectiveBlocked(allow, block) ==
  PushMissing(SelectSeq(DEFAULT_BLOCKED, LAMBDA cmd : ~Includes(allow, cmd)), block)

\* Variant of getCurrentAllowed that answers with the list as it was at startup
getCurrentAllowed_startup == DEFAULT_ALLOWED

getCurrentAllowed == EffectiveAllowed(allowOverrides, blockOverrides)

getCurrentBlocked == EffectiveBlocked(allowOverrides, blockOverrides)

\* ------------------------------------------------------------------------
\* Results handed to the transport (wrap) and thrown errors
\* ------------------------------------------------------------------------
Failure(op, error) == [op |-> op, success |-> FALSE, thrown |-> FALSE, error |-> error]

\* The handler's promise rejects: the transport reports a protocol error.
Thrown(op, error) == [op |-> op, success |-> FALSE, thrown |-> TRUE, error |-> error]

\* ------------------------------------------------------------------------
\* Appending to command-audit.log
\* ------------------------------------------------------------------------
\* Variant of appendFile that replaces the content of the file
appendFile_overwrite(file, entry) == <<entry>>

\* fs.appendFile(path, line) when the write succeeds
appendFile(file, entry) == Append(file, entry)

\* Variant of auditCatch that lets the rejection through
auditCatch_rethrow(outcome) == outcome

\* The .catch(() => {}) on the appendFile promise in audit(): whatever the
\* outcome of the write, the promise audit() awaits is fulfilled.
auditCatch(outcome) == "ok"

CfgSlots == 1..MaxCfg

NoCfgInFlight == \A k \in CfgSlots : cfgOps[k].kind = "idle"

\* ------------------------------------------------------------------------
\* loadConfig, started (and not awaited) by the constructor
\* ------------------------------------------------------------------------
\* fs.readFile settles: the try branch on a parseable file, else the catch
\* branch, which installs empty overrides and calls saveConfig.
LoadConfigRead ==
  /\ loadPc = "reading"
  /\ IF configFile.kind = "ok"
     THEN /\ allowOverrides' = configFile.allowOverrides
          /\ blockOverrides' = configFile.blockOverrides
          /\ loadPc' = "done"
     ELSE /\ allowOverrides' = <<>>
          /\ blockOverrides' = <<>>
          /\ loadPc' = "saving"
  /\ loaded' = TRUE
  /\ UNCHANGED <<configFile, auditLog, cfgOps, exported, exportedPolicy, lastWriter,
             lastResult>>
  /\ UNCHANGED <<execs, errorLog, begun, LOG_ALL_COMMANDS>>

\* The writeFile issued by the catch branch of loadConfig completes; its
\* content was fixed when saveConfig was called.
LoadConfigSave ==
  /\ loadPc = "saving"
  /\ configFile' = File(<<>>, <<>>)
  /\ loadPc' = "done"
  /\ UNCHANGED <<loaded, allowOverrides, blockOverrides, auditLog, cfgOps,
                 exported, exportedPolicy, lastWriter, lastResult>>
  /\ UNCHANGED <<execs, errorLog, begun, LOG_ALL_COMMANDS>>

\* The writeFile issued by the catch branch of loadConfig fails: saveConfig
\* throws out of the catch block and the promise of loadConfig(), which the
\* constructor does not await, is rejected; the unhandledRejection hook
\* writes an ERROR line. A failed write leaves the file as it was or
\* truncated.
LoadConfigSaveFailed ==
  /\ loadPc = "saving"
  /\ configFile' \in {configFile, BadFile}
  /\ loadPc' = "rejected"
  /\ errorLog' = errorLog + 1
  /\ UNCHANGED <<begun, LOG_ALL_COMMANDS>>
  /\ UNCHANGED <<loaded, allowOverrides, blockOverrides, auditLog, cfgOps,
                 exported, exportedPolicy, lastWriter, lastResult, execs>>

\* ------------------------------------------------------------------------
\* allow_command / block_command
\* ------------------------------------------------------------------------
AllowedAfterAllow(cmd) ==
  IF ~Includes(DEFAULT_ALLOWED, cmd) /\ ~Includes(allowOverrides, cmd)
  THEN Append(allowOverrides, cmd) ELSE allowOverrides

\* Variant of BlockedAfterBlock with the default-list test inverted
BlockedAfterBlock_inverted(cmd) ==
  IF Includes(DEFAULT_BLOCKED, cmd) /\ ~Includes(blockOverrides, cmd)
  THEN Append(blockOverrides, cmd) ELSE blockOverrides

BlockedAfterBlock(cmd) ==
  IF ~Includes(DEFAULT_BLOCKED, cmd) /\ ~Includes(blockOverrides, cmd)
  THEN Append(blockOverrides, cmd) ELSE blockOverrides

\* The synchronous part of allowCommand, up to the writeFile of saveConfig.
allowCommand(k, command) ==
  LET cmd == Trim(command) IN
  /\ cfgOps[k].kind = "idle"
  /\ IF cmd = <<>>
     THEN /\ lastResult' = Failure("allow_command", "Command cannot be empty")
          /\ UNCHANGED <<allowOverrides, blockOverrides, cfgOps, lastWriter>>
     ELSE IF ~NamePattern(cmd)
     THEN /\ lastResult' = Failure("allow_command", "Invalid command format")
          /\ UNCHANGED <<allowOverrides, blockOverrides, cfgOps, lastWriter>>
     ELSE IF ~loaded
     THEN /\ lastResult' = Thrown("allow_command", "TypeError")
          /\ UNCHANGED <<allowOverrides, blockOverrides, cfgOps, lastWriter>>
     ELSE /\ blockOverrides' = Without(blockOverrides, cmd)
          /\ allowOverrides' = AllowedAfterAllow(cmd)
          /\ cfgOps' = [cfgOps EXCEPT ![k] =
                 [kind |-> "allow_command", pc |-> "persist", command |-> cmd,
                  warning |-> Includes(dangerous, cmd),
                  content |-> File(allowOverrides', blockOverrides')]]
          /\ lastWriter' = [lastWriter EXCEPT ![cmd] = "allow"]
          /\ UNCHANGED lastResult
  /\ UNCHANGED <<loaded, loadPc, configFile, auditLog, exported, exportedPolicy>>
  /\ begun' = IF cfgOps'[k].kind = "idle" THEN begun ELSE begun + 1
  /\ UNCHANGED LOG_ALL_COMMANDS
  /\ UNCHANGED <<execs, errorLog>>

\* Variant of blockCommand that also signals the running children of the
\* command it blocks
blockCommand_killing(k, command) ==
  LET cmd == Trim(command) IN
  /\ cfgOps[k].kind = "idle"
  /\ IF cmd = <<>>
     THEN /\ lastResult' = Failure("block_command", "Command cannot be empty")
          /\ UNCHANGED <<allowOverrides, blockOverrides, cfgOps, lastWriter, execs>>
     ELSE IF ~NamePattern(cmd)
     THEN /\ lastResult' = Failure("block_command", "Invalid command format")
          /\ UNCHANGED <<allowOverrides, blockOverrides, cfgOps, lastWriter, execs>>
     ELSE IF ~loaded
     THEN /\ lastResult' = Thrown("block_command", "TypeError")
          /\ UNCHANGED <<allowOverrides, blockOverrides, cfgOps, lastWriter, execs>>
     ELSE /\ allowOverrides' = Without(allowOverrides, cmd)
          /\ blockOverrides' = BlockedAfterBlock(cmd)
          /\ cfgOps' = [cfgOps EXCEPT ![k] =
                 [kind |-> "block_command", pc |-> "persist", command |-> cmd,
                  warning |-> FALSE,
                  content |-> File(allowOverrides', blockOverrides')]]
          /\ lastWriter' = [lastWriter EXCEPT ![cmd] = "block"]
          /\ execs' = [e \in DOMAIN execs |->
                 IF execs[e].child = "running" /\ StartsWith(execs[e].command, cmd)
                 THEN [execs[e] EXCEPT !.killed = TRUE, !.signals = @ + 1]
                 ELSE execs[e]]
          /\ UNCHANGED lastResult
  /\ UNCHANGED <<loaded, loadPc, configFile, auditLog, exported, exportedPolicy>>
  /\ begun' = IF cfgOps'[k].kind = "idle" THEN begun ELSE begun + 1
  /\ UNCHANGED LOG_ALL_COMMANDS
  /\ UNCHANGED errorLog

\* The synchronous part of blockCommand, up to the writeFile of saveConfig.
blockCommand(k, command) ==
  LET cmd == Trim(command) IN
  /\ cfgOps[k].kind = "idle"
  /\ IF cmd = <<>>
     THEN /\ lastResult' = Failure("block_command", "Command cannot be empty")
          /\ UNCHANGED <<allowOverrides, blockOverrides, cfgOps, lastWriter>>
     ELSE IF ~NamePattern(cmd)
     THEN /\ lastResult' = Failure("block_command", "Invalid command format")
          /\ UNCHANGED <<allowOverrides, blockOverrides, cfgOps, lastWriter>>
     ELSE IF ~loaded
     THEN /\ lastResult' = Thrown("block_command", "TypeError")
          /\ UNCHANGED <<allowOverrides, blockOverrides, cfgOps, lastWriter>>
     ELSE /\ allowOverrides' = Without(allowOverrides, cmd)
          /\ blockOverrides' = BlockedAfterBlock(cmd)
          /\ cfgOps' = [cfgOps EXCEPT ![k] =
                 [kind |-> "block_command", pc |-> "persist", command |-> cmd,
                  warning |-> FALSE,
                  content |-> File(allowOverrides', blockOverrides')]]
          /\ lastWriter' = [lastWriter EXCEPT ![cmd] = "block"]
          /\ UNCHANGED lastResult
  /\ UNCHANGED <<loaded, loadPc, configFile, auditLog, exported, exportedPolicy>>
  /\ begun' = IF cfgOps'[k].kind = "idle" THEN begun ELSE begun + 1
  /\ UNCHANGED LOG_ALL_COMMANDS
  /\ UNCHANGED <<execs, errorLog>>

\* ------------------------------------------------------------------------
\* reset_config / export_config / import_config
\* ------------------------------------------------------------------------
\* Variant of resetConfig that clears only the allow overrides
resetConfig_keepBlocks(k, confirm) ==
  /\ cfgOps[k].kind = "idle"
  /\ IF ~confirm
     THEN /\ lastResult' = Failure("reset_config", "Reset requires confirmation")
          /\ UNCHANGED <<allowOverrides, blockOverrides, cfgOps, lastWriter>>
     ELSE IF ~loaded
     THEN /\ lastResult' = Thrown("reset_config", "TypeError")
          /\ UNCHANGED <<allowOverrides, blockOverrides, cfgOps, lastWriter>>
     ELSE /\ allowOverrides' = <<>>
          /\ blockOverrides' = blockOverrides
          /\ cfgOps' = [cfgOps EXCEPT ![k] =
                 [kind |-> "reset_config", pc |-> "persist",
                  oldAllowOverrides |-> allowOverrides,
                  oldBlockOverrides |-> blockOverrides,
                  content |-> File(<<>>, blockOverrides)]]
          /\ lastWriter' = NoWriter
          /\ UNCHANGED lastResult
  /\ UNCHANGED <<loaded, loadPc, configFile, auditLog, exported, exportedPolicy>>
  /\ begun' = IF cfgOps'[k].kind = "idle" THEN begun ELSE begun + 1
  /\ UNCHANGED LOG_ALL_COMMANDS
  /\ UNCHANGED <<execs, errorLog>>

\* Variant of resetConfig that does not look at confirm
resetConfig_unconfirmed(k, confirm) ==
  /\ cfgOps[k].kind = "idle"
  /\ IF ~loaded
     THEN /\ lastResult' = Thrown("reset_config", "TypeError")
          /\ UNCHANGED <<allowOverrides, blockOverrides, cfgOps, lastWriter>>
     ELSE /\ allowOverrides' = <<>>
          /\ blockOverrides' = <<>>
          /\ cfgOps' = [cfgOps EXCEPT ![k] =
                 [kind |-> "reset_config", pc |-> "persist",
                  oldAllowOverrides |-> allowOverrides,
                  oldBlockOverrides |-> blockOverrides,
                  content |-> File(<<>>, <<>>)]]
          /\ lastWriter' = NoWriter
          /\ UNCHANGED lastResult
  /\ UNCHANGED <<loaded, loadPc, configFile, auditLog, exported, exportedPolicy>>
  /\ begun' = IF cfgOps'[k].kind = "idle" THEN begun ELSE begun + 1
  /\ UNCHANGED LOG_ALL_COMMANDS
  /\ UNCHANGED <<execs, errorLog>>

resetConfig(k, confirm) ==
  /\ cfgOps[k].kind = "idle"
  /\ IF ~confirm
     THEN /\ lastResult' = Failure("reset_config", "Reset requires confirmation")
          /\ UNCHANGED <<allowOverrides, blockOverrides, cfgOps, lastWriter>>
     ELSE IF ~loaded
     THEN /\ lastResult' = Thrown("reset_config", "TypeError")
          /\ UNCHANGED <<allowOverrides, blockOverrides, cfgOps, lastWriter>>
     ELSE /\ allowOverrides' = <<>>
          /\ blockOverrides' = <<>>
          /\ cfgOps' = [cfgOps EXCEPT ![k] =
                 [kind |-> "reset_config", pc |-> "persist",
                  oldAllowOverrides |-> allowOverrides,
                  oldBlockOverrides |-> blockOverrides,
                  content |-> File(<<>>, <<>>)]]
          /\ lastWriter' = NoWriter
          /\ UNCHANGED lastResult
  /\ UNCHANGED <<loaded, loadPc, configFile, auditLog, exported, exportedPolicy>>
  /\ begun' = IF cfgOps'[k].kind = "idle" THEN begun ELSE begun + 1
  /\ UNCHANGED LOG_ALL_COMMANDS
  /\ UNCHANGED <<execs, errorLog>>

\* Variant of exportConfig that writes a record of the export to the audit log
exportConfig_audited ==
  /\ exported' = Stringify(loaded, allowOverrides, blockOverrides)
  /\ exportedPolicy' = IF loaded
                       THEN <<Range(getCurrentAllowed), Range(getCurrentBlocked)>>
                       ELSE <<{}, {}>>
  /\ lastResult' = [op |-> "export_config", success |-> TRUE, thrown |-> FALSE,
                    config |-> exported']
  /\ auditLog' = Append(auditLog, [action |-> "export_config", success |-> TRUE])
  /\ UNCHANGED <<loaded, allowOverrides, blockOverrides, loadPc, configFile,
                 cfgOps, lastWriter>>
  /\ UNCHANGED <<execs, errorLog, begun, LOG_ALL_COMMANDS>>

exportConfig ==
  /\ exported' = Stringify(loaded, allowOverrides, blockOverrides)
  /\ exportedPolicy' = IF loaded
                       THEN <<Range(getCurrentAllowed), Range(getCurrentBlocked)>>
                       ELSE <<{}, {}>>
  /\ lastResult' = [op |-> "export_config", success |-> TRUE, thrown |-> FALSE,
                    config |-> exported']
  /\ UNCHANGED <<loaded, allowOverrides, blockOverrides, loadPc, configFile,
                 auditLog, cfgOps, lastWriter>>
  /\ UNCHANGED <<execs, errorLog, begun, LOG_ALL_COMMANDS>>

\* Variant of ImportError that checks the entries of allowOverrides only
ImportError_allowOnly(config) ==
  IF ~config.parse THEN "JSON.parse"
  ELSE IF config.allowOverrides.t # "array"
  THEN "Invalid config: allowOverrides must be an array"
  ELSE IF config.blockOverrides.t # "array"
  THEN "Invalid config: blockOverrides must be an array"
  ELSE LET allOverrides == config.allowOverrides.v IN
       IF \E i \in 1..Len(allOverrides) :
            ~allOverrides[i].str \/ ~NamePattern(allOverrides[i].v)
       THEN "Invalid command format"
       ELSE IF ~loaded THEN "TypeError"
       ELSE ""

\* The checks of importConfig that throw inside its try block; "" when the
\* payload passes them all.
ImportError(config) ==
  IF ~config.parse THEN "JSON.parse"
  ELSE IF config.allowOverrides.t # "array"
  THEN "Invalid config: allowOverrides must be an array"
  ELSE IF config.blockOverrides.t # "array"
  THEN "Invalid config: blockOverrides must be an array"
  ELSE LET allOverrides == config.allowOverrides.v \o config.blockOverrides.v IN
       IF \E i \in 1..Len(allOverrides) :
            ~allOverrides[i].str \/ ~NamePattern(allOverrides[i].v)
       THEN "Invalid command format"
       ELSE IF ~loaded THEN "TypeError"
       ELSE ""

\* The array of names a validated JSON array of strings parses to.
RECURSIVE Strings(_)
Strings(entries) ==
  IF entries = <<>> THEN <<>> ELSE <<Head(entries).v>> \o Strings(Tail(entries))

importConfig(k, configJson) ==
  /\ cfgOps[k].kind = "idle"
  /\ IF ImportError(configJson) # ""
     THEN /\ lastResult' = Failure("import_config", ImportError(configJson))
          /\ UNCHANGED <<allowOverrides, blockOverrides, cfgOps, lastWriter>>
     ELSE /\ allowOverrides' = Strings(configJson.allowOverrides.v)
          /\ blockOverrides' = Strings(configJson.blockOverrides.v)
          /\ cfgOps' = [cfgOps EXCEPT ![k] =
                 [kind |-> "import_config", pc |-> "persist",
                  oldConfig |-> [allowOverrides |-> allowOverrides,
                                 blockOverrides |-> blockOverrides],
                  content |-> File(allowOverrides', blockOverrides')]]
          /\ lastWriter' = NoWriter
          /\ UNCHANGED lastResult
  /\ UNCHANGED <<loaded, loadPc, configFile, auditLog, exported, exportedPolicy>>
  /\ begun' = IF cfgOps'[k].kind = "idle" THEN begun ELSE begun + 1
  /\ UNCHANGED LOG_ALL_COMMANDS
  /\ UNCHANGED <<execs, errorLog>>

\* ------------------------------------------------------------------------
\* The asynchronous tail of a configuration change:
\*   await saveConfig(); await audit(record); return wrap(result)
\* ------------------------------------------------------------------------
\* Variant of saveConfig whose write is not awaited: the handler goes on
\* before the file is written
saveConfig_notAwaited(k) ==
  /\ cfgOps[k].pc = "persist"
  /\ configFile' = configFile
  /\ cfgOps' = [cfgOps EXCEPT ![k].pc = "audit"]
  /\ UNCHANGED <<loaded, allowOverrides, blockOverrides, loadPc, auditLog,
                 exported, exportedPolicy, lastWriter, lastResult>>
  /\ UNCHANGED <<execs, errorLog, begun, LOG_ALL_COMMANDS>>

\* fs.writeFile of saveConfig completes with the content built at the call.
saveConfig(k) ==
  /\ cfgOps[k].pc = "persist"
  /\ configFile' = cfgOps[k].content
  /\ cfgOps' = [cfgOps EXCEPT ![k].pc = "audit"]
  /\ UNCHANGED <<loaded, allowOverrides, blockOverrides, loadPc, auditLog,
                 exported, exportedPolicy, lastWriter, lastResult>>
  /\ UNCHANGED <<execs, errorLog, begun, LOG_ALL_COMMANDS>>

\* The audit record of a configuration change, built when audit() is called.
ConfigChangeRecord(op) ==
  CASE op.kind = "reset_config" ->
         [action |-> "reset_config", success |-> TRUE,
          oldAllowOverrides |-> op.oldAllowOverrides,
          oldBlockOverrides |-> op.oldBlockOverrides]
    [] op.kind = "import_config" ->
         [action |-> "import_config", success |-> TRUE,
          oldConfig |-> op.oldConfig,
          newConfig |-> [allowOverrides |-> allowOverrides,
                         blockOverrides |-> blockOverrides]]
    [] OTHER ->
         [action |-> op.kind, success |-> TRUE, command |-> op.command]

\* Variant of auditConfig that writes nothing
auditConfig_skipped(k) ==
  /\ cfgOps[k].pc = "audit"
  /\ auditLog' = auditLog
  /\ cfgOps' = [cfgOps EXCEPT ![k].pc = "return"]
  /\ UNCHANGED <<loaded, allowOverrides, blockOverrides, loadPc, configFile,
                 exported, exportedPolicy, lastWriter, lastResult>>
  /\ UNCHANGED <<execs, errorLog, begun, LOG_ALL_COMMANDS>>

auditConfig(k) ==
  /\ cfgOps[k].pc = "audit"
  /\ auditLog' = appendFile(auditLog, ConfigChangeRecord(cfgOps[k]))
  /\ cfgOps' = [cfgOps EXCEPT ![k].pc = "return"]
  /\ UNCHANGED <<loaded, allowOverrides, blockOverrides, loadPc, configFile,
                 exported, exportedPolicy, lastWriter, lastResult>>
  /\ UNCHANGED <<execs, errorLog, begun, LOG_ALL_COMMANDS>>

\* Variant of ConfigResult that never carries a warning
ConfigResult_noWarning(op) ==
  [op |-> op.kind, success |-> TRUE, thrown |-> FALSE,
   warning |-> FALSE,
   currentAllowed |-> Len(getCurrentAllowed),
   currentBlocked |-> Len(getCurrentBlocked)]

ConfigResult(op) ==
  [op |-> op.kind, success |-> TRUE, thrown |-> FALSE,
   warning |-> IF op.kind = "allow_command" THEN op.warning ELSE FALSE,
   currentAllowed |-> Len(getCurrentAllowed),
   currentBlocked |-> Len(getCurrentBlocked)]

returnConfig(k) ==
  /\ cfgOps[k].pc = "return"
  /\ lastResult' = ConfigResult(cfgOps[k])
  /\ cfgOps' = [cfgOps EXCEPT ![k] = Idle]
  /\ UNCHANGED <<loaded, allowOverrides, blockOverrides, loadPc, configFile,
                 auditLog, exported, exportedPolicy, lastWriter>>
  /\ UNCHANGED <<execs, errorLog, begun, LOG_ALL_COMMANDS>>

\* Variant of saveConfigFailed in which the handler goes on after the failure
saveConfigFailed_swallowed(k) ==
  /\ cfgOps[k].pc = "persist"
  /\ configFile' \in {configFile, BadFile}
  /\ cfgOps' = [cfgOps EXCEPT ![k].pc = "audit"]
  /\ UNCHANGED <<loaded, allowOverrides, blockOverrides, loadPc, auditLog,
                 exported, exportedPolicy, lastWriter, lastResult>>
  /\ UNCHANGED <<execs, errorLog, begun, LOG_ALL_COMMANDS>>

\* fs.writeFile of saveConfig fails (the file stays as it was or is left
\* truncated): saveConfig throws. allowCommand, blockCommand and resetConfig
\* do not catch it, so the handler's promise rejects; importConfig catches
\* it and returns success:false. Nothing after the await runs.
saveConfigFailed(k) ==
  /\ cfgOps[k].pc = "persist"
  /\ configFile' \in {configFile, BadFile}
  /\ lastResult' = IF cfgOps[k].kind = "import_config"
                   THEN Failure("import_config", "EIO")
                   ELSE Thrown(cfgOps[k].kind, "EIO")
  /\ cfgOps' = [cfgOps EXCEPT ![k] = Idle]
  /\ UNCHANGED <<loaded, allowOverrides, blockOverrides, loadPc, auditLog,
                 exported, exportedPolicy, lastWriter>>
  /\ UNCHANGED <<execs, errorLog, begun, LOG_ALL_COMMANDS>>

\* fs.appendFile of audit() fails during a configuration change: nothing is
\* written, and the handler goes on as audit() lets it.
auditConfigFailed(k) ==
  /\ cfgOps[k].pc = "audit"
  /\ IF auditCatch("EIO") = "ok"
     THEN /\ cfgOps' = [cfgOps EXCEPT ![k].pc = "return"]
          /\ UNCHANGED lastResult
     ELSE /\ cfgOps' = [cfgOps EXCEPT ![k] = Idle]
          /\ lastResult' = IF cfgOps[k].kind = "import_config"
                           THEN Failure("import_config", "EIO")
                           ELSE Thrown(cfgOps[k].kind, "EIO")
  /\ UNCHANGED <<loaded, allowOverrides, blockOverrides, loadPc, configFile,
                 auditLog, exported, exportedPolicy, lastWriter>>
  /\ UNCHANGED <<execs, errorLog, begun, LOG_ALL_COMMANDS>>

\* ------------------------------------------------------------------------
\* Environment-driven configuration
\* ------------------------------------------------------------------------
MAX_LINES == 1

\* path.resolve of an absolute POSIX path: "." and empty segments dropped,
\* ".." removes the segment before it (never above the root), no trailing
\* separator.
RECURSIVE Normalize(_, _)
Normalize(segments, kept) ==
  IF segments = <<>> THEN kept
  ELSE IF Head(segments) = <<>> \/ Head(segments) = <<".">>
  THEN Normalize(Tail(segments), kept)
  ELSE IF Head(segments) = <<".", ".">>
  THEN Normalize(Tail(segments),
                 IF kept = <<>> THEN kept ELSE SubSeq(kept, 1, Len(kept) - 1))
  ELSE Normalize(Tail(segments), Append(kept, Head(segments)))

pathResolve(p) == <<"/">> \o Join(Normalize(SplitOn(p, "/", <<>>), <<>>), <<"/">>)

RAW_ALLOWED_DIRS == << <<"/","w","/">>, <<"/","d">> >>

ALLOWED_DIRS ==
  [i \in 1..Len(RAW_ALLOWED_DIRS) |-> pathResolve(RAW_ALLOWED_DIRS[i]) \o <<"/">>]

\* ------------------------------------------------------------------------
\* Security helpers
\* ------------------------------------------------------------------------
\* Variant of pathAllowed that compares the token as written
pathAllowed_unresolved(tok) ==
  IF ~StartsWith(tok, <<"/">>) THEN TRUE
  ELSE \E i \in 1..Len(ALLOWED_DIRS) : StartsWith(tok, ALLOWED_DIRS[i])

pathAllowed(tok) ==
  IF ~StartsWith(tok, <<"/">>) THEN TRUE
  ELSE \E i \in 1..Len(ALLOWED_DIRS) : StartsWith(pathResolve(tok), ALLOWED_DIRS[i])

NoError == [denied |-> FALSE, kind |-> "", subject |-> <<>>]

Reason(kind, subject) == [denied |-> TRUE, kind |-> kind, subject |-> subject]

\* The first element of parts that fails pathAllowed, as the for-loop finds it
RECURSIVE FirstBadPath(_)
FirstBadPath(parts) ==
  IF parts = <<>> THEN NoError
  ELSE IF ~pathAllowed(Head(parts)) THEN Reason("path not allowed", Head(parts))
  ELSE FirstBadPath(Tail(parts))

\* Variant of Validate that consults the allowed list before the blocked one
Validate_allowedFirst(cmd, currentAllowed, currentBlocked) ==
  LET parts == SplitWhite(Trim(cmd), <<>>)
      base == parts[1]
  IN IF ~Includes(currentAllowed, base)
     THEN IF Includes(currentBlocked, base) THEN Reason("blocked command", base)
          ELSE Reason("not allowed", base)
     ELSE FirstBadPath(Tail(parts))

\* validate(cmd) against given effective lists: NoError stands for null.
Validate(cmd, currentAllowed, currentBlocked) ==
  LET parts == SplitWhite(Trim(cmd), <<>>)
      base == parts[1]
  IN IF Includes(currentBlocked, base) THEN Reason("blocked command", base)
     ELSE IF ~Includes(currentAllowed, base) THEN Reason("not allowed", base)
     ELSE FirstBadPath(Tail(parts))

validate(cmd) == Validate(cmd, getCurrentAllowed, getCurrentBlocked)

\* ------------------------------------------------------------------------
\* Output truncation
\* ------------------------------------------------------------------------
TruncatedMarker(k) ==
  <<".",".","."," ","(","t","r","u","n","c","a","t","e","d"," ">> \o Decimal(k) \o <<" ","l","i","n","e","s",")">>

truncate(text) ==
  LET lines == SplitOn(text, "\n", <<>>) IN
  IF Len(lines) <= MAX_LINES THEN text
  ELSE Join(SubSeq(lines, 1, MAX_LINES), <<"\n">>)
         \o <<"\n">> \o TruncatedMarker(Len(lines) - MAX_LINES)

\* ------------------------------------------------------------------------
\* Command execution: execute(command, cwd) and run(cmd, cwd)
\* ------------------------------------------------------------------------
ExecSlots == 1..MaxExec

Pending == [state |-> "pending"]

NoExec ==
  [pc |-> "free", command |-> <<>>, cwd |-> <<>>, child |-> "none",
   out |-> <<>>, err |-> <<>>, outChunks |-> 0, errChunks |-> 0,
   killer |-> "none", killed |-> FALSE, signals |-> 0,
   promise |-> Pending, settles |-> 0]

\* Variant of resolve in which a later call replaces the settled value
resolve_overwrite(promise, value) == [state |-> "fulfilled", value |-> value]

\* resolve / reject of the promise made by run(): only the first call settles.
resolve(promise, value) ==
  IF promise.state = "pending" THEN [state |-> "fulfilled", value |-> value]
  ELSE promise

\* Variant of reject that leaves the promise pending
reject_ignored(promise, error) == promise

reject(promise, error) ==
  IF promise.state = "pending" THEN [state |-> "rejected", error |-> error]
  ELSE promise

Settled(old, new) == IF old.state = "pending" /\ new.state # "pending" THEN 1 ELSE 0

\* Variant of execute that judges the command by the policy as last
\* written to the config file
execute_persistedPolicy(e, command, cwd) ==
  LET err == Validate(command,
                      EffectiveAllowed(configFile.allowOverrides, configFile.blockOverrides),
                      EffectiveBlocked(configFile.allowOverrides, configFile.blockOverrides))
  IN
  /\ execs[e].pc = "free"
  /\ IF ~loaded
     THEN /\ lastResult' = Thrown("execute_command", "TypeError")
          /\ UNCHANGED execs
     ELSE IF err.denied
     THEN /\ lastResult' = [op |-> "execute_command", success |-> FALSE,
                            thrown |-> FALSE, error |-> err]
          /\ UNCHANGED execs
     ELSE /\ execs' = [execs EXCEPT ![e] =
                 [NoExec EXCEPT !.pc = "running", !.command = command,
                                !.cwd = cwd, !.child = "running",
                                !.killer = "armed"]]
          /\ UNCHANGED lastResult
  /\ begun' = IF execs'[e].pc = "running" THEN begun + 1 ELSE begun
  /\ UNCHANGED LOG_ALL_COMMANDS
  /\ UNCHANGED <<loaded, auditLog, errorLog>>
  /\ UNCHANGED cfgvars

\* Variant of execute that spawns whatever validate answered
execute_unchecked(e, command, cwd) ==
  /\ execs[e].pc = "free"
  /\ IF ~loaded
     THEN /\ lastResult' = Thrown("execute_command", "TypeError")
          /\ UNCHANGED execs
     ELSE /\ execs' = [execs EXCEPT ![e] =
                 [NoExec EXCEPT !.pc = "running", !.command = command,
                                !.cwd = cwd, !.child = "running",
                                !.killer = "armed"]]
          /\ UNCHANGED lastResult
  /\ begun' = IF execs'[e].pc = "running" THEN begun + 1 ELSE begun
  /\ UNCHANGED LOG_ALL_COMMANDS
  /\ UNCHANGED <<loaded, auditLog, errorLog>>
  /\ UNCHANGED cfgvars

\* execute up to the await of run(): validation, then spawn and the timer.
execute(e, command, cwd) ==
  /\ execs[e].pc = "free"
  /\ IF ~loaded
     THEN /\ lastResult' = Thrown("execute_command", "TypeError")
          /\ UNCHANGED execs
     ELSE IF validate(command).denied
     THEN /\ lastResult' = [op |-> "execute_command", success |-> FALSE,
                            thrown |-> FALSE, error |-> validate(command)]
          /\ UNCHANGED execs
     ELSE /\ execs' = [execs EXCEPT ![e] =
                 [NoExec EXCEPT !.pc = "running", !.command = command,
                                !.cwd = cwd, !.child = "running",
                                !.killer = "armed"]]
          /\ UNCHANGED lastResult
  /\ begun' = IF execs'[e].pc = "running" THEN begun + 1 ELSE begun
  /\ UNCHANGED LOG_ALL_COMMANDS
  /\ UNCHANGED <<loaded, auditLog, errorLog>>
  /\ UNCHANGED cfgvars

\* child.stdout 'data'
stdoutData(e) ==
  /\ execs[e].child = "running"
  /\ execs[e].outChunks < MaxChunks
  /\ execs' = [execs EXCEPT ![e].out = @ \o <<"a","\n">>, ![e].outChunks = @ + 1]
  /\ UNCHANGED <<loaded, auditLog, lastResult, errorLog, begun, LOG_ALL_COMMANDS>>
  /\ UNCHANGED cfgvars

\* child.stderr 'data'
stderrData(e) ==
  /\ execs[e].child = "running"
  /\ execs[e].errChunks < MaxChunks
  /\ execs' = [execs EXCEPT ![e].err = @ \o <<"e","\n">>, ![e].errChunks = @ + 1]
  /\ UNCHANGED <<loaded, auditLog, lastResult, errorLog, begun, LOG_ALL_COMMANDS>>
  /\ UNCHANGED cfgvars

\* Variant of TimeoutResult that truncates the captured output
TimeoutResult_truncated(x) ==
  [success |-> FALSE, exit_code |-> "null", stdout |-> truncate(x.out),
   stderr |-> truncate(x.err), timeout |-> TRUE]

TimeoutResult(x) ==
  [success |-> FALSE, exit_code |-> "null", stdout |-> x.out,
   stderr |-> x.err, timeout |-> TRUE]

\* Variant of killer that signals the child and leaves the promise alone
killer_signalOnly(e) ==
  LET x == execs[e] IN
  /\ x.killer = "armed"
  /\ execs' = [execs EXCEPT ![e] =
       IF ~x.killed
       THEN [x EXCEPT !.killer = "fired",
                      !.killed = (x.child = "running"),
                      !.signals = @ + 1]
       ELSE [x EXCEPT !.killer = "fired"]]
  /\ UNCHANGED <<loaded, auditLog, lastResult, errorLog, begun, LOG_ALL_COMMANDS>>
  /\ UNCHANGED cfgvars

\* The setTimeout callback of run()
killer(e) ==
  LET x == execs[e] IN
  /\ x.killer = "armed"
  /\ execs' = [execs EXCEPT ![e] =
       IF ~x.killed
       THEN [x EXCEPT !.killer = "fired",
                      !.killed = (x.child = "running"),
                      !.signals = @ + 1,
                      !.promise = resolve(x.promise, TimeoutResult(x)),
                      !.settles = @ + Settled(x.promise, resolve(x.promise, TimeoutResult(x)))]
       ELSE [x EXCEPT !.killer = "fired"]]
  /\ UNCHANGED <<loaded, auditLog, lastResult, errorLog, begun, LOG_ALL_COMMANDS>>
  /\ UNCHANGED cfgvars

\* Variant of clearTimeout that leaves the timer armed
clearTimeout_noop(timer) == timer

\* clearTimeout(killer): an armed timer is disarmed, a fired one stays fired
clearTimeout(timer) == IF timer = "armed" THEN "cleared" ELSE timer

\* Variant of CloseResult that reports success whatever the exit code
CloseResult_alwaysSuccess(x, code) ==
  [success |-> TRUE, exit_code |-> code, stdout |-> truncate(x.out),
   stderr |-> truncate(x.err), timeout |-> FALSE]

CloseResult(x, code) ==
  [success |-> (code = "0"), exit_code |-> code, stdout |-> truncate(x.out),
   stderr |-> truncate(x.err), timeout |-> FALSE]

\* Exit codes a 'close' event can carry: "null" when the child died of the
\* signal, "errno" after a failed spawn.
CloseCodes(x) ==
  IF x.child = "failed" THEN {"errno"}
  ELSE IF x.killed THEN {"null", "0", "1"}
  ELSE {"0", "1"}

\* child.on('close')
onClose(e, code) ==
  LET x == execs[e] IN
  /\ x.child \in {"running", "failed"}
  /\ code \in CloseCodes(x)
  /\ execs' = [execs EXCEPT ![e] =
       [x EXCEPT !.child = "closed",
                 !.killer = clearTimeout(@),
                 !.out = truncate(x.out),
                 !.err = truncate(x.err),
                 !.promise = resolve(x.promise, CloseResult(x, code)),
                 !.settles = @ + Settled(x.promise, resolve(x.promise, CloseResult(x, code)))]]
  /\ UNCHANGED <<loaded, auditLog, lastResult, errorLog, begun, LOG_ALL_COMMANDS>>
  /\ UNCHANGED cfgvars

\* child.on('error'): the process could not be created; emitted before any
\* other event of the child.
onError(e) ==
  LET x == execs[e] IN
  /\ x.child = "running"
  /\ x.killer = "armed"
  /\ x.outChunks = 0 /\ x.errChunks = 0
  /\ execs' = [execs EXCEPT ![e] =
       [x EXCEPT !.child = "failed",
                 !.promise = reject(x.promise, "spawn"),
                 !.settles = @ + Settled(x.promise, reject(x.promise, "spawn"))]]
  /\ UNCHANGED <<loaded, auditLog, lastResult, errorLog, begun, LOG_ALL_COMMANDS>>
  /\ UNCHANGED cfgvars

\* The record execute() passes to audit() once run() has settled
ExecutionRecord(x) ==
  IF x.promise.state = "fulfilled"
  THEN [command |-> x.command, cwd |-> x.cwd,
        success |-> x.promise.value.success,
        exit_code |-> x.promise.value.exit_code,
        stdout |-> x.promise.value.stdout,
        stderr |-> x.promise.value.stderr,
        timeout |-> x.promise.value.timeout]
  ELSE [command |-> x.command, cwd |-> x.cwd, success |-> FALSE,
        error |-> x.promise.error]

\* execute resumes after run() settled: await audit(...)
auditExecution(e) ==
  /\ execs[e].pc = "running"
  /\ execs[e].promise.state # "pending"
  /\ auditLog' = appendFile(auditLog, ExecutionRecord(execs[e]))
  /\ execs' = [execs EXCEPT ![e].pc = "return"]
  /\ UNCHANGED <<loaded, lastResult, errorLog, begun, LOG_ALL_COMMANDS>>
  /\ UNCHANGED cfgvars

\* fs.appendFile of audit() fails after run() settled: nothing is written,
\* and execute goes on as audit() lets it.
auditExecutionFailed(e) ==
  /\ execs[e].pc = "running"
  /\ execs[e].promise.state # "pending"
  /\ IF auditCatch("EIO") = "ok"
     THEN /\ execs' = [execs EXCEPT ![e].pc = "return"]
          /\ UNCHANGED lastResult
     ELSE /\ execs' = [execs EXCEPT ![e].pc = "returned"]
          /\ lastResult' = Thrown("execute_command", "EIO")
  /\ UNCHANGED <<loaded, auditLog, errorLog, begun, LOG_ALL_COMMANDS>>
  /\ UNCHANGED cfgvars

ExecutionResult(x) ==
  IF x.promise.state = "fulfilled"
  THEN [op |-> "execute_command", thrown |-> FALSE,
        success |-> x.promise.value.success,
        exit_code |-> x.promise.value.exit_code,
        stdout |-> x.promise.value.stdout,
        stderr |-> x.promise.value.stderr,
        timeout |-> x.promise.value.timeout]
  ELSE [op |-> "execute_command", thrown |-> FALSE, success |-> FALSE,
        error |-> Reason("execution error", <<>>)]

\* return this.wrap(res), after the ERROR log line on the catch path
returnExecution(e) ==
  /\ execs[e].pc = "return"
  /\ lastResult' = ExecutionResult(execs[e])
  /\ errorLog' = IF execs[e].promise.state = "rejected" THEN errorLog + 1 ELSE errorLog
  /\ UNCHANGED <<begun, LOG_ALL_COMMANDS>>
  /\ execs' = [execs EXCEPT ![e].pc = "returned"]
  /\ UNCHANGED <<loaded, auditLog>>
  /\ UNCHANGED cfgvars

\* The call has returned and neither the child nor the timer can deliver a
\* further event to it: the slot serves the next execute_command.
releaseExecution(e) ==
  /\ execs[e].pc = "returned"
  /\ execs[e].child \in {"closed", "failed"}
  /\ execs[e].killer # "armed"
  /\ execs' = [execs EXCEPT ![e] = NoExec]
  /\ UNCHANGED <<loaded, auditLog, lastResult, errorLog, begun, LOG_ALL_COMMANDS>>
  /\ UNCHANGED cfgvars

\* ------------------------------------------------------------------------
\* The audit log file and search_command_history
\* ------------------------------------------------------------------------
IsConfigChange(rec) == "action" \in DOMAIN rec

\* An entry of auditLog is a record written by audit(), or a line of the
\* file that audit() did not write: [corrupt |-> its text].
IsCorrupt(entry) == "corrupt" \in DOMAIN entry

ActionName(kind) ==
  CASE kind = "allow_command" -> <<"a","l","l","o","w","_","c","o","m","m","a","n","d">>
    [] kind = "block_command" -> <<"b","l","o","c","k","_","c","o","m","m","a","n","d">>
    [] kind = "reset_config" -> <<"r","e","s","e","t","_","c","o","n","f","i","g">>
    [] kind = "import_config" -> <<"i","m","p","o","r","t","_","c","o","n","f","i","g">>

Bool(b) == IF b THEN <<"t","r","u","e">> ELSE <<"f","a","l","s","e">>

\* JSON.stringify(rec), restricted to the action, command and success
\* fields of the record, in the order audit() is given them.
JSONStringify(rec) ==
  IF IsConfigChange(rec)
  THEN <<"{","\"","a","c","t","i","o","n","\"",":","\"">> \o ActionName(rec.action)
         \o (IF "command" \in DOMAIN rec
             THEN <<"\"",",","\"","c","o","m","m","a","n","d","\"",":","\"">> \o rec.command
             ELSE <<>>)
         \o <<"\"",",","\"","s","u","c","c","e","s","s","\"",":">> \o Bool(rec.success)
         \o <<"}">>
  ELSE <<"{","\"","c","o","m","m","a","n","d","\"",":","\"">> \o rec.command
         \o <<"\"",",","\"","s","u","c","c","e","s","s","\"",":">> \o Bool(rec.success)
         \o <<"}">>

\* The text of one line of the file
LineText(entry) == IF IsCorrupt(entry) THEN entry.corrupt ELSE JSONStringify(entry)

\* data.split('\n'): every line audit() wrote ends in a newline, so the
\* last piece is the empty string.
EmptyLine == [corrupt |-> <<>>]

FileLines(file) == Append(file, EmptyLine)

\* String.prototype.includes
StringIncludes(text, q) ==
  \E i \in 0..(Len(text) - Len(q)) : SubSeq(text, i + 1, i + Len(q)) = q

\* JSON.parse of a line: an object text gives its record, anything else throws
Parses(entry) ==
  LET text == LineText(entry) IN
  /\ Len(text) >= 2
  /\ text[1] = "{" /\ text[Len(text)] = "}"
  /\ ~IsCorrupt(entry)

\* Array.prototype.slice(-limit): -0 is 0, so a limit of 0 slices from the
\* start of the array.
SliceLast(arr, limit) ==
  IF limit = 0 \/ limit >= Len(arr) THEN arr
  ELSE SubSeq(arr, Len(arr) - limit + 1, Len(arr))

\* The matches of history(q, limit) over a file; readFile throws when the
\* file does not exist (no line was ever appended).
Matches(file, q, limit) ==
  IF file = <<>> THEN <<>>
  ELSE SelectSeq(
         SliceLast(SelectSeq(FileLines(file),
                             LAMBDA l : StringIncludes(LineText(l), q)), limit),
         Parses)

history(q, limit) ==
  /\ lastResult' = [op |-> "search_command_history", thrown |-> FALSE,
                    query |-> q, matches |-> Matches(auditLog, q, limit)]
  /\ UNCHANGED <<loaded, auditLog, execs, errorLog, begun, LOG_ALL_COMMANDS>>
  /\ UNCHANGED cfgvars

\* ------------------------------------------------------------------------
\* list_allowed_commands / get_terminal_status / view_config
\* ------------------------------------------------------------------------
listAllowed ==
  /\ lastResult' =
       IF ~loaded THEN Thrown("list_allowed_commands", "TypeError")
       ELSE [op |-> "list_allowed_commands", thrown |-> FALSE,
             allowed |-> getCurrentAllowed, blocked |-> getCurrentBlocked,
             overrides |-> [allow |-> allowOverrides, block |-> blockOverrides]]
  /\ UNCHANGED <<loaded, auditLog, execs, errorLog, begun, LOG_ALL_COMMANDS>>
  /\ UNCHANGED cfgvars

status ==
  /\ lastResult' =
       IF ~loaded THEN Thrown("get_terminal_status", "TypeError")
       ELSE [op |-> "get_terminal_status", thrown |-> FALSE,
             max_lines |-> MAX_LINES, allowed_dirs |-> ALLOWED_DIRS,
             commands |-> [allowed |-> Len(getCurrentAllowed),
                           blocked |-> Len(getCurrentBlocked),
                           overrides |-> Len(allowOverrides) + Len(blockOverrides)]]
  /\ UNCHANGED <<loaded, auditLog, execs, errorLog, begun, LOG_ALL_COMMANDS>>
  /\ UNCHANGED cfgvars

\* The characters of command names and of the indicator suffix, in code
\* unit order (the suffix begins with a space)
CharOrder ==
  <<" ","-","0","1","2","3","4","5","6","7","8","9","_",
    "a","b","c","d","e","f","g","h","i","j","k","l","m",
    "n","o","p","q","r","s","t","u","v","w","x","y","z">>

Ord(c) == CHOOSE i \in 1..Len(CharOrder) : CharOrder[i] = c

\* a < b as Array.prototype.sort() compares strings
RECURSIVE StringLess(_, _)
StringLess(a, b) ==
  IF b = <<>> THEN FALSE
  ELSE IF a = <<>> THEN TRUE
  ELSE IF Head(a) = Head(b) THEN StringLess(Tail(a), Tail(b))
  ELSE Ord(Head(a)) < Ord(Head(b))

\* The names a breakdown can hold, in sort() order, and the place of each
RECURSIVE InsertName(_, _)
InsertName(sorted, name) ==
  IF sorted = <<>> THEN <<name>>
  ELSE IF name = Head(sorted) THEN sorted
  ELSE IF StringLess(name, Head(sorted)) THEN <<name>> \o sorted
  ELSE <<Head(sorted)>> \o InsertName(Tail(sorted), name)

RECURSIVE SortNames(_)
SortNames(names) ==
  IF names = <<>> THEN <<>> ELSE InsertName(SortNames(Tail(names)), Head(names))

SortedNames == SortNames(DEFAULT_ALLOWED \o DEFAULT_BLOCKED \o <<vi>>)

Rank == [name \in Range(SortedNames) |->
           CHOOSE i \in 1..Len(SortedNames) : SortedNames[i] = name]

\* An entry of the breakdown: a name, with a note when an override put it
\* there. The text of a noted entry is the name, a space and the note, so
\* it sorts right after the bare name.
Plain(cmd) == [cmd |-> cmd, note |-> ""]
Noted(cmd, note) == [cmd |-> cmd, note |-> note]
EntryLess(a, b) ==
  \/ Rank[a.cmd] < Rank[b.cmd]
  \/ a.cmd = b.cmd /\ a.note = "" /\ b.note # ""

RECURSIVE InsertSorted(_, _)
InsertSorted(sorted, entry) ==
  IF sorted = <<>> THEN <<entry>>
  ELSE IF EntryLess(entry, Head(sorted)) THEN <<entry>> \o sorted
  ELSE <<Head(sorted)>> \o InsertSorted(Tail(sorted), entry)

\* Array.prototype.sort() without a comparator
RECURSIVE Sort(_)
Sort(arr) == IF arr = <<>> THEN <<>> ELSE InsertSorted(Sort(Tail(arr)), Head(arr))

RECURSIVE PlainEntries(_)
PlainEntries(names) ==
  IF names = <<>> THEN <<>> ELSE <<Plain(Head(names))>> \o PlainEntries(Tail(names))

SortedDefaultAllowed == Sort(PlainEntries(DEFAULT_ALLOWED))

SortedDefaultBlocked == Sort(PlainEntries(DEFAULT_BLOCKED))

RECURSIVE InsertNoted(_, _, _)
InsertNoted(sorted, names, note) ==
  IF names = <<>> THEN sorted
  ELSE InsertNoted(InsertSorted(sorted, Noted(Head(names), note)), Tail(names), note)

\* The sorted breakdown: the DEFAULT list entries not removed by the
\* opposite override, then the overrides that are not in the DEFAULT list,
\* sorted. Removing entries keeps the order of the sorted DEFAULT list, so
\* the sort of the whole array is the sorted DEFAULT list with the removed
\* entries dropped and the noted entries inserted at their places.
Breakdown(sortedDefaults, defaults, removing, adding, note) ==
  InsertNoted(SelectSeq(sortedDefaults, LAMBDA entry : ~Includes(removing, entry.cmd)),
              SelectSeq(adding, LAMBDA cmd : ~Includes(defaults, cmd)), note)

viewConfig ==
  /\ lastResult' =
       IF ~loaded THEN Thrown("view_config", "TypeError")
       ELSE [op |-> "view_config", thrown |-> FALSE,
             summary |-> [totalAllowed |-> Len(getCurrentAllowed),
                          totalBlocked |-> Len(getCurrentBlocked),
                          allowOverrides |-> Len(allowOverrides),
                          blockOverrides |-> Len(blockOverrides)],
             currentlyAllowed |->
               Breakdown(SortedDefaultAllowed, DEFAULT_ALLOWED, blockOverrides,
                         allowOverrides, "allowed by override"),
             currentlyBlocked |->
               Breakdown(SortedDefaultBlocked, DEFAULT_BLOCKED, allowOverrides,
                         blockOverrides, "blocked by override"),
             overrides |-> [allowed |-> allowOverrides, blocked |-> blockOverrides],
             settings |-> [maxOutputLines |-> MAX_LINES,
                           allowedDirectories |-> Len(ALLOWED_DIRS)]]
  /\ UNCHANGED <<loaded, auditLog, execs, errorLog, begun, LOG_ALL_COMMANDS>>
  /\ UNCHANGED cfgvars

\* ------------------------------------------------------------------------
\* Inputs of execute_command (SpecValidate ranges over many more lines)
\* ------------------------------------------------------------------------
CommandLines ==
  { <<"r","m"," ","-","r","f"," ","/">>,
    <<" "," ","l","s"," "," ","/","w","/","f"," ">> }

WorkingDirs == { <<"/","w">> }

\* ------------------------------------------------------------------------
\* Specifications
\* ------------------------------------------------------------------------
Init ==
  /\ loaded = FALSE
  /\ allowOverrides = <<>>
  /\ blockOverrides = <<>>
  /\ loadPc = "reading"
  /\ configFile \in StartupFiles
  /\ auditLog = <<>>
  /\ cfgOps = [k \in CfgSlots |-> Idle]
  /\ exported = Unparseable
  /\ exportedPolicy = <<{}, {}>>
  /\ lastWriter = NoWriter
  /\ lastResult = NoResult
  /\ execs = [e \in ExecSlots |-> NoExec]
  /\ errorLog = 0
  /\ begun = 0
  /\ LOG_ALL_COMMANDS = TRUE

\* Configuration changes accepted so far (audited or still in flight)
ChangesBegun ==
  Len(SelectSeq(auditLog, IsConfigChange))
    + Cardinality({ k \in CfgSlots : cfgOps[k].pc \in {"persist", "audit"} })

\* Executions spawned so far (audited or still awaiting run())
RunsBegun ==
  Len(SelectSeq(auditLog, LAMBDA rec : ~IsConfigChange(rec)))
    + Cardinality({ e \in ExecSlots : execs[e].pc = "running" })

\* The single caller of the configuration tools issues one call at a time;
\* the model stops taking calls once max changes were accepted.
CfgCall(max) ==
  /\ NoCfgInFlight
  /\ ChangesBegun < max
  /\ \/ \E command \in CommandInputs : allowCommand(1, command)
     \/ \E command \in CommandInputs : blockCommand(1, command)
     \/ \E confirm \in BOOLEAN : resetConfig(1, confirm)
     \/ \E configJson \in ImportInputs \cup {exported} : importConfig(1, configJson)

CfgStep == \E k \in CfgSlots : saveConfig(k) \/ auditConfig(k) \/ returnConfig(k)

ExecCall(max, commands) ==
  /\ RunsBegun < max
  /\ \E e \in ExecSlots, command \in commands, cwd \in WorkingDirs :
       execute(e, command, cwd)

ExecStep ==
  \E e \in ExecSlots :
    \/ stdoutData(e)
    \/ stderrData(e)
    \/ killer(e)
    \/ \E code \in {"0", "1", "null", "errno"} : onClose(e, code)
    \/ onError(e)
    \/ auditExecution(e)
    \/ returnExecution(e)
    \/ releaseExecution(e)

\* The policy store and the configuration tools
Next ==
  \/ LoadConfigRead
  \/ LoadConfigSave
  \/ CfgCall(MaxChanges)
  \/ CfgStep
  \/ exportConfig

Spec == Init /\ [][Next]_vars

\* The command validator and the process runner, under the loaded policy
NextExec ==
  \/ LoadConfigRead
  \/ LoadConfigSave
  \/ ExecCall(MaxRuns, CommandLines)
  \/ ExecStep

SpecExec == Init /\ [][NextExec]_vars

\* validate as a function of the command line and the override sets
ValidateInputs ==
  { <<"l","s">>,
    <<" "," ","l","s"," "," ","-","l","a"," ">>,
    <<"r","m"," ","-","r","f"," ","/">>,
    <<"r","m">>,
    <<"v","i"," ","/","w","/","f">>,
    <<>>,
    <<" "," "," ">>,
    <<"l","s"," ","/","e","t","c","/","s","h","a","d","o","w">>,
    <<"l","s"," ","/","w","/","f">>,
    <<"l","s"," ","/","w","/",".",".","/","e","t","c">>,
    <<"l","s"," ","/","w","/",".",".","/","w","/","f">>,
    <<"l","s"," ","/","w","x","/","f">>,
    <<"l","s"," ","/","d","/",".","/","f"," ","/","w","/","f">>,
    <<"l","s"," ","f"," ","/","e","t","c"," ","/","u","s","r">>,
    <<"l","s"," ","/","w","/","f"," ","/","e","t","c">>,
    <<"l","s"," ","/","w">>,
    <<"l","s"," ","/","d","/">>,
    <<"l","s"," ","/">>,
    <<"l","s"," ","-","l","a"," ","/","d","/","a","/",".",".","/",".",".","/","d","/","f">>,
    <<"l","s"," ","/","d","/","a","/",".",".","/",".",".","/","f">>,
    <<"l","s","	","/","d","d">>,
    <<"l","s"," ",".",".","/","e","t","c">>,
    <<"l","s"," ","-","-","f","i","l","e","=","/","e","t","c">> }

OverrideStates ==
  { <<<<>>, <<>>>>, <<<<rm>>, <<ls>>>>, <<<<vi>>, <<>>>>, <<<<ls>>, <<ls>>>>,
    <<<<>>, <<vi, ls>>>> }

InitValidate ==
  /\ loaded = TRUE
  /\ \E o \in OverrideStates :
       /\ allowOverrides = o[1]
       /\ blockOverrides = o[2]
       /\ configFile = File(o[1], o[2])
  /\ loadPc = "done"
  /\ auditLog = <<>>
  /\ cfgOps = [k \in CfgSlots |-> Idle]
  /\ exported = Unparseable
  /\ exportedPolicy = <<{}, {}>>
  /\ lastWriter = NoWriter
  /\ lastResult = NoResult
  /\ execs = [e \in ExecSlots |-> NoExec]
  /\ errorLog = 0
  /\ begun = 0
  /\ LOG_ALL_COMMANDS = TRUE

NextValidate == ExecCall(1, ValidateInputs)

SpecValidate == InitValidate /\ [][NextValidate]_vars

\* truncate as a function of the captured text: a child that has printed
\* some text on stdout closes. The text is any sequence of letters and
\* newlines of at most MaxText characters.
OutputTexts == UNION { [1..n -> {"a", "\n"}] : n \in 0..MaxText }

InitTruncate ==
  /\ loaded = TRUE
  /\ allowOverrides = <<>>
  /\ blockOverrides = <<>>
  /\ loadPc = "done"
  /\ configFile = File(<<>>, <<>>)
  /\ auditLog = <<>>
  /\ cfgOps = [k \in CfgSlots |-> Idle]
  /\ exported = Unparseable
  /\ exportedPolicy = <<{}, {}>>
  /\ lastWriter = NoWriter
  /\ lastResult = NoResult
  /\ \E text \in OutputTexts :
       execs = [e \in ExecSlots |->
                 IF e = 1
                 THEN [NoExec EXCEPT !.pc = "running", !.command = ls,
                                     !.cwd = <<"/","w">>, !.child = "running",
                                     !.killer = "armed", !.out = text]
                 ELSE NoExec]
  /\ errorLog = 0
  /\ begun = 0
  /\ LOG_ALL_COMMANDS = TRUE

NextTruncate == \E e \in ExecSlots, code \in {"0", "1"} : onClose(e, code)

SpecTruncate == InitTruncate /\ [][NextTruncate]_vars

\* The same child and texts, with the timer firing before or after the close
SpecOutput ==
  InitTruncate /\ [][NextTruncate \/ \E e \in ExecSlots : killer(e)]_vars

\* The process runner under a loaded default policy, with the scheduling the
\* event loop gives: an armed timer fires, and a continuation whose await
\* has settled runs. Nothing makes a child close or fail.
InitLoaded ==
  /\ loaded = TRUE
  /\ allowOverrides = <<>>
  /\ blockOverrides = <<>>
  /\ loadPc = "done"
  /\ configFile = File(<<>>, <<>>)
  /\ auditLog = <<>>
  /\ cfgOps = [k \in CfgSlots |-> Idle]
  /\ exported = Unparseable
  /\ exportedPolicy = <<{}, {}>>
  /\ lastWriter = NoWriter
  /\ lastResult = NoResult
  /\ execs = [e \in ExecSlots |-> NoExec]
  /\ errorLog = 0
  /\ begun = 0
  /\ LOG_ALL_COMMANDS = TRUE

NextRun == ExecCall(MaxRuns, CommandLines) \/ ExecStep

\* The same calls and events with no assumption about scheduling.
SpecRun == InitLoaded /\ [][NextRun]_vars

EventLoopFair ==
  \A e \in ExecSlots :
    /\ WF_vars(killer(e))
    /\ WF_vars(auditExecution(e))
    /\ WF_vars(returnExecution(e))

SpecRunFair == InitLoaded /\ [][NextRun]_vars /\ EventLoopFair

\* The process runner started by a host that enabled or disabled audit
\* logging (user_config.log_all_commands of the manifest).
InitEnv ==
  /\ loaded = TRUE
  /\ allowOverrides = <<>>
  /\ blockOverrides = <<>>
  /\ loadPc = "done"
  /\ configFile = File(<<>>, <<>>)
  /\ auditLog = <<>>
  /\ cfgOps = [k \in CfgSlots |-> Idle]
  /\ exported = Unparseable
  /\ exportedPolicy = <<{}, {}>>
  /\ lastWriter = NoWriter
  /\ lastResult = NoResult
  /\ execs = [e \in ExecSlots |-> NoExec]
  /\ errorLog = 0
  /\ begun = 0
  /\ LOG_ALL_COMMANDS \in BOOLEAN

SpecEnv == InitEnv /\ [][NextRun]_vars

\* search_command_history as a function of the file, the query and the
\* limit: the file holds up to MaxLog lines, written by audit() or not.
HistoryEntries ==
  { [command |-> <<"l","s"," ","/","w","/","f">>, cwd |-> <<"/","w">>,
     success |-> FALSE, error |-> "spawn"],
    [action |-> "allow_command", success |-> TRUE, command |-> rm],
    [corrupt |-> <<"{","r","m">>] }

HistoryFiles == UNION { [1..n -> HistoryEntries] : n \in 0..MaxLog }

Queries == { <<>>, rm, ls, <<"z">>, <<"m","m","a","n","d","\"",":","\"","r">> }

InitHistory ==
  /\ loaded = TRUE
  /\ allowOverrides = <<>>
  /\ blockOverrides = <<>>
  /\ loadPc = "done"
  /\ configFile = File(<<>>, <<>>)
  /\ auditLog \in HistoryFiles
  /\ cfgOps = [k \in CfgSlots |-> Idle]
  /\ exported = Unparseable
  /\ exportedPolicy = <<{}, {}>>
  /\ lastWriter = NoWriter
  /\ lastResult = NoResult
  /\ execs = [e \in ExecSlots |-> NoExec]
  /\ errorLog = 0
  /\ begun = 0
  /\ LOG_ALL_COMMANDS = TRUE

NextHistory == \E q \in Queries, limit \in 0..MaxLimit : history(q, limit)

SpecHistory == InitHistory /\ [][NextHistory]_vars

\* The whole engine over a loaded default policy: every tool, with few
\* inputs each, called by a client that awaits each audited call before it
\* makes the next, and children that print nothing. The model stops taking
\* audited calls once MaxCalls of them have begun.
NoCallInFlight ==
  /\ NoCfgInFlight
  /\ \A e \in ExecSlots : execs[e].pc \in {"free", "returned"}

EngineCall ==
  /\ begun < MaxCalls
  /\ NoCallInFlight
  /\ \/ \E command \in {rm, <<" ">>} : allowCommand(1, command)
     \/ \E command \in {ls} : blockCommand(1, command)
     \/ \E confirm \in BOOLEAN : resetConfig(1, confirm)
     \/ \E configJson \in {Unparseable, Doc(Arr(<<Str(rm)>>), Arr(<<Str(ls)>>))} :
          importConfig(1, configJson)
     \/ \E e \in ExecSlots, command \in CommandLines, cwd \in WorkingDirs :
          execute(e, command, cwd)

EngineStep ==
  \/ \E k \in CfgSlots : saveConfig(k) \/ auditConfig(k) \/ returnConfig(k)
  \/ \E e \in ExecSlots :
       \/ killer(e)
       \/ \E code \in {"0", "1", "null", "errno"} : onClose(e, code)
       \/ onError(e)
       \/ auditExecution(e)
       \/ returnExecution(e)
       \/ releaseExecution(e)

ReadOnlyCall ==
  \/ \E q \in {rm}, limit \in {1} : history(q, limit)
  \/ listAllowed
  \/ status
  \/ viewConfig
  \/ exportConfig

AuditFault ==
  \/ \E k \in CfgSlots : auditConfigFailed(k)
  \/ \E e \in ExecSlots : auditExecutionFailed(e)

NextEngine == EngineCall \/ EngineStep \/ ReadOnlyCall

SpecEngine == InitLoaded /\ [][NextEngine]_vars

\* The same engine with appends to the audit log that can fail, started with
\* the audit log an earlier session may have left.
EarlierLog ==
  { <<>>,
    <<[action |-> "block_command", success |-> TRUE, command |-> rm]>> }

InitEngine ==
  /\ loaded = TRUE
  /\ allowOverrides = <<>>
  /\ blockOverrides = <<>>
  /\ loadPc = "done"
  /\ configFile = File(<<>>, <<>>)
  /\ auditLog \in EarlierLog
  /\ cfgOps = [k \in CfgSlots |-> Idle]
  /\ exported = Unparseable
  /\ exportedPolicy = <<{}, {}>>
  /\ lastWriter = NoWriter
  /\ lastResult = NoResult
  /\ execs = [e \in ExecSlots |-> NoExec]
  /\ errorLog = 0
  /\ begun = 0
  /\ LOG_ALL_COMMANDS = TRUE

NextEngineFaults == NextEngine \/ AuditFault

SpecEngineFaults == InitEngine /\ [][NextEngineFaults]_vars

\* The configuration tools over a loaded default policy, with failing writes
\* of the config file and failing appends to the audit log.
PersistCall ==
  /\ NoCfgInFlight
  /\ begun < MaxChanges
  /\ \/ \E command \in {rm, vi} : allowCommand(1, command)
     \/ \E command \in {ls} : blockCommand(1, command)
     \/ \E confirm \in {TRUE} : resetConfig(1, confirm)
     \/ \E configJson \in {Doc(Arr(<<Str(rm)>>), Arr(<<Str(ls)>>))} :
          importConfig(1, configJson)

PersistFault == \E k \in CfgSlots : saveConfigFailed(k) \/ auditConfigFailed(k)

NextPersist == PersistCall \/ CfgStep \/ PersistFault

SpecPersist == InitLoaded /\ [][NextPersist]_vars

\* Startup: loadConfig over each startup file, with the write of the default
\* file succeeding or failing, and the tools called meanwhile.
NextStartup ==
  \/ LoadConfigRead
  \/ LoadConfigSave
  \/ LoadConfigSaveFailed
  \/ CfgCall(1)
  \/ CfgStep
  \/ listAllowed

SpecStartup == Init /\ [][NextStartup]_vars

\* The configuration tools over a loaded default policy, every input of
\* CfgCall, with files that can be written.
SpecPolicy == InitLoaded /\ [][CfgCall(MaxChanges) \/ CfgStep]_vars

\* view_config asked before, during and after up to MaxCalls configuration
\* changes, over every input of CfgCall.
SpecView == InitLoaded /\ [][CfgCall(MaxCalls) \/ CfgStep \/ viewConfig]_vars

\* Configuration changes and executions in turn, by a client that awaits
\* each call before it makes the next: an execute is judged right after any
\* history of up to MaxChanges audited calls.
FreshCommands == { rm, <<"l","s"," ","/","w","/","f">>, <<"r","m"," ","/","e","t","c">> }

FreshCall ==
  /\ NoCallInFlight
  /\ begun < MaxChanges
  /\ \/ \E command \in {rm} : allowCommand(1, command)
     \/ \E command \in {ls} : blockCommand(1, command)
     \/ \E confirm \in {TRUE} : resetConfig(1, confirm)
     \/ \E configJson \in {Doc(Arr(<<Str(rm)>>), Arr(<<Str(ls)>>))} :
          importConfig(1, configJson)
     \/ \E e \in ExecSlots, command \in FreshCommands, cwd \in WorkingDirs :
          execute(e, command, cwd)

SpecFresh == InitLoaded /\ [][FreshCall \/ EngineStep]_vars

\* The engine under a client that does not await its calls: the request
\* handler is async, so a tool call may arrive while earlier ones wait for
\* their writeFile, their appendFile or their child. One more call of each
\* kind than the serial bounds may be in flight; a new call takes the first
\* slot that is free. Children print nothing.
InitConcurrent ==
  /\ loaded = TRUE
  /\ allowOverrides = <<>>
  /\ blockOverrides = <<>>
  /\ loadPc = "done"
  /\ configFile = File(<<>>, <<>>)
  /\ auditLog = <<>>
  /\ cfgOps = [k \in 1..(MaxCfg + 1) |-> Idle]
  /\ exported = Unparseable
  /\ exportedPolicy = <<{}, {}>>
  /\ lastWriter = NoWriter
  /\ lastResult = NoResult
  /\ execs = [e \in 1..(MaxExec + 1) |-> NoExec]
  /\ errorLog = 0
  /\ begun = 0
  /\ LOG_ALL_COMMANDS = TRUE

ConcurrentCall ==
  /\ begun < MaxChanges
  /\ \/ \E k \in DOMAIN cfgOps :
          /\ \A j \in 1..(k - 1) : cfgOps[j].kind # "idle"
          /\ \/ \E command \in {rm} : allowCommand(k, command)
             \/ \E command \in {ls} : blockCommand(k, command)
             \/ \E confirm \in {TRUE} : resetConfig(k, confirm)
             \/ \E configJson \in {Doc(Arr(<<Str(rm)>>), Arr(<<Str(ls)>>))} :
                  importConfig(k, configJson)
     \/ \E e \in DOMAIN execs :
          /\ \A j \in 1..(e - 1) : execs[j].pc # "free"
          /\ \E command \in FreshCommands, cwd \in WorkingDirs :
               execute(e, command, cwd)

ConcurrentStep ==
  \/ \E k \in DOMAIN cfgOps : saveConfig(k) \/ auditConfig(k) \/ returnConfig(k)
  \/ \E e \in DOMAIN execs :
       \/ killer(e)
       \/ \E code \in {"0", "1", "null", "errno"} : onClose(e, code)
       \/ onError(e)
       \/ auditExecution(e)
       \/ returnExecution(e)
       \/ releaseExecution(e)

SpecConcurrent == InitConcurrent /\ [][ConcurrentCall \/ ConcurrentStep]_vars

\* ------------------------------------------------------------------------
CurrentAllowedSet == Range(getCurrentAllowed)

CurrentBlockedSet == Range(getCurrentBlocked)

\* C1: once the store is loaded, no command name is a member of both
\* getCurrentAllowed() and getCurrentBlocked(), whatever allow, block, reset
\* and import calls were made.
C1_EffectiveListsExclusive ==
  loaded => CurrentAllowedSet \cap CurrentBlockedSet = {}

\* C2: allowOverrides and blockOverrides never share a command name.
C2_OverridesDisjoint ==
  Range(allowOverrides) \cap Range(blockOverrides) = {}

\* The command checks and the path check of a command line, stated on the
\* effective sets
C3_Parts(command) == SplitWhite(Trim(command), <<>>)

C3_MustDeny(command) ==
  \/ C3_Parts(command)[1] \in CurrentBlockedSet
  \/ C3_Parts(command)[1] \notin CurrentAllowedSet
  \/ \E i \in 2..Len(C3_Parts(command)) : ~pathAllowed(C3_Parts(command)[i])

C3_Spawned(e) == execs[e].child = "none" /\ execs'[e].child # "none"

\* C3: an execute call spawns a child only if validate passed; a command
\* whose base is effectively blocked or not effectively allowed, or that
\* names an absolute path outside the allowed directories, gets the
\* structured failure {success:false, error:<reason>} and spawns nothing.
C3_SpawnOnlyIfValid ==
  [][\A e \in ExecSlots, command \in ValidateInputs, cwd \in WorkingDirs :
       execute(e, command, cwd) =>
         /\ C3_Spawned(e) => ~validate(command).denied /\ ~C3_MustDeny(command)
         /\ C3_MustDeny(command) =>
              /\ execs' = execs
              /\ lastResult'.op = "execute_command"
              /\ ~lastResult'.success /\ ~lastResult'.thrown
              /\ lastResult'.error.denied]_vars

C3_Witness ==
  /\ lastResult.op = "execute_command"
  /\ ~lastResult.success
  /\ lastResult.error = Reason("blocked command", ls)
  /\ \A e \in ExecSlots : execs[e].child = "none"

\* C4: the last allow_command/block_command that named x decides x: after
\* blockCommand(x), x is effectively blocked and not effectively allowed;
\* after allowCommand(x), x is effectively allowed and not effectively
\* blocked, whatever came before and whichever default list x is in.
C4_LastWriterWins ==
  \A x \in Names :
    /\ lastWriter[x] = "block" =>
         x \in CurrentBlockedSet /\ x \notin CurrentAllowedSet
    /\ lastWriter[x] = "allow" =>
         x \in CurrentAllowedSet /\ x \notin CurrentBlockedSet

\* allowCommand(ls) was followed by blockCommand(ls)
C4_Witness ==
  /\ lastWriter[ls] = "block"
  /\ Len(auditLog) = 2
  /\ auditLog[1] = [action |-> "allow_command", success |-> TRUE, command |-> ls]
  /\ auditLog[2].action = "block_command"

\* A reset_config / import_config call returns in this step
C5_Returns(k, kind) == cfgOps[k].kind = kind /\ cfgOps'[k].kind = "idle"

\* C5: when resetConfig(confirm=true) returns success, both override sets
\* are empty and getCurrentAllowed()/getCurrentBlocked() are exactly
\* DEFAULT_ALLOWED/DEFAULT_BLOCKED, whatever the history before it.
C5_ResetRestoresDefaults ==
  [][\A k \in CfgSlots :
       C5_Returns(k, "reset_config") =>
         /\ lastResult'.op = "reset_config" /\ lastResult'.success
         /\ allowOverrides' = <<>> /\ blockOverrides' = <<>>
         /\ getCurrentAllowed' = DEFAULT_ALLOWED
         /\ getCurrentBlocked' = DEFAULT_BLOCKED]_vars

\* A reset that removed overrides of both kinds has returned
C5_Witness ==
  /\ lastResult.op = "reset_config" /\ lastResult.success
  /\ auditLog # <<>>
  /\ auditLog[Len(auditLog)].action = "reset_config"
  /\ auditLog[Len(auditLog)].oldAllowOverrides # <<>>
  /\ auditLog[Len(auditLog)].oldBlockOverrides # <<>>

\* C6: importing, into a freshly reset store, the document that
\* exportConfig() returned in a state S is accepted, returns success and
\* gives effective allowed/blocked sets equal to those of S.
C6_RoundTrip ==
  [][\A k \in CfgSlots :
       /\ ( /\ importConfig(k, exported)
            /\ loaded /\ exported.allowOverrides.t = "array"
            /\ allowOverrides = <<>> /\ blockOverrides = <<>> )
          => /\ cfgOps'[k].kind = "import_config"
             /\ CurrentAllowedSet' = exportedPolicy[1]
             /\ CurrentBlockedSet' = exportedPolicy[2]
       /\ C5_Returns(k, "import_config") =>
            lastResult'.op = "import_config" /\ lastResult'.success]_vars

\* An export of a state with overrides was imported after a reset
C6_Witness ==
  /\ lastResult.op = "import_config" /\ lastResult.success
  /\ Len(auditLog) = 2
  /\ auditLog[1].action = "reset_config"
  /\ auditLog[2].action = "import_config"
  /\ auditLog[2].newConfig = [allowOverrides |-> <<rm>>, blockOverrides |-> <<ls>>]
  /\ exportedPolicy = <<CurrentAllowedSet, CurrentBlockedSet>>
  /\ rm \in CurrentAllowedSet /\ ls \in CurrentBlockedSet

\* A payload that importConfig has to reject
C7_Invalid(config) ==
  \/ ~config.parse
  \/ config.allowOverrides.t # "array"
  \/ config.blockOverrides.t # "array"
  \/ \E f \in {config.allowOverrides.v, config.blockOverrides.v} :
       \E i \in 1..Len(f) : ~f[i].str \/ ~NamePattern(f[i].v)

\* C7: importConfig of a payload that is unparseable, lacks an array-valued
\* allowOverrides or blockOverrides, or has an entry that is not a string
\* matching [A-Za-z0-9_-]+ returns success:false and leaves the override
\* sets, the persisted config and the audit log as they were.
C7_ImportAllOrNothing ==
  [][\A k \in CfgSlots, config \in ImportInputs :
       (importConfig(k, config) /\ C7_Invalid(config)) =>
         /\ lastResult'.op = "import_config" /\ ~lastResult'.success
         /\ UNCHANGED <<allowOverrides, blockOverrides, configFile, auditLog,
                        cfgOps>>]_vars

\* An import with one bad entry was refused while overrides were in place
C7_Witness ==
  /\ lastResult = Failure("import_config", "Invalid command format")
  /\ allowOverrides = <<rm>> /\ blockOverrides = <<ls>>
  /\ configFile = File(<<rm>>, <<ls>>)

\* An absolute-path token whose canonical path lies under none of the roots
C8_Outside(tok) ==
  /\ StartsWith(tok, <<"/">>)
  /\ \A i \in 1..Len(RAW_ALLOWED_DIRS) :
       ~StartsWith(pathResolve(tok), pathResolve(RAW_ALLOWED_DIRS[i]) \o <<"/">>)

C8_FirstOutside(parts) ==
  parts[CHOOSE i \in 2..Len(parts) :
          C8_Outside(parts[i]) /\ \A j \in 2..(i - 1) : ~C8_Outside(parts[j])]

\* C8: for a command line whose base command passes the command checks, if
\* some later token begins with '/' and its canonical path is not under an
\* allowed root, validate denies and the reason names that token (the first
\* such token), also for paths leaving a root through '..' and for siblings
\* that only share a root's name as a string prefix.
C8_DirectoryEscapeDenied ==
  [][\A e \in ExecSlots, command \in ValidateInputs, cwd \in WorkingDirs :
       ( /\ execute(e, command, cwd)
         /\ C3_Parts(command)[1] \in CurrentAllowedSet \ CurrentBlockedSet
         /\ \E i \in 2..Len(C3_Parts(command)) : C8_Outside(C3_Parts(command)[i]) )
       => /\ execs' = execs
          /\ lastResult'.op = "execute_command" /\ ~lastResult'.success
          /\ lastResult'.error =
               Reason("path not allowed", C8_FirstOutside(C3_Parts(command)))]_vars

\* A path that enters an allowed root and leaves it through '..' was denied
C8_Witness ==
  /\ lastResult.op = "execute_command" /\ ~lastResult.success
  /\ lastResult.error = Reason("path not allowed", <<"/","w","/",".",".","/","e","t","c">>)
  /\ \A e \in ExecSlots : execs[e].child = "none"

\* A sibling directory with an allowed root as string prefix was denied
C8_WitnessSibling ==
  /\ lastResult.op = "execute_command" /\ ~lastResult.success
  /\ lastResult.error = Reason("path not allowed", <<"/","w","x","/","f">>)

\* C9: the promise of one run() is settled exactly once, by whichever of
\* the close event and the timeout timer comes first; a later close does
\* not change the result, the timer never fires once a close was handled,
\* and the call's continuation runs once.
C9_FirstEventWins ==
  [][\A e \in ExecSlots :
       /\ execs'[e].settles <= 1
       /\ (execs[e].promise.state # "pending" /\ execs'[e].pc # "free")
            => execs'[e].promise = execs[e].promise
       /\ execs'[e].child = "closed" => execs'[e].killer # "armed"
       /\ (execs[e].child = "closed" /\ execs'[e].pc # "free")
            => execs'[e].killer = execs[e].killer
       /\ execs'[e].promise.state = "fulfilled"
            => (execs'[e].promise.value.timeout <=> execs'[e].killer = "fired")
       /\ (execs[e].pc = "returned" /\ execs'[e].pc # "free")
            => execs'[e].pc = "returned"]_vars

\* The close event arrived after the timeout had settled the result
C9_Witness ==
  \E e \in ExecSlots :
    /\ execs[e].killer = "fired" /\ execs[e].child = "closed"
    /\ execs[e].promise.state = "fulfilled"
    /\ execs[e].promise.value.timeout
    /\ execs[e].pc = "returned"

\* C10: when the timer fires on a running child, run() signals the child
\* once and settles at once with timeout:true, exit_code:null,
\* success:false and the output captured so far, the child still running;
\* execute hands that result to the caller.
C10_TimeoutResult ==
  [][\A e \in ExecSlots :
       /\ (killer(e) /\ execs[e].child = "running") =>
            /\ execs'[e].signals = execs[e].signals + 1
            /\ execs'[e].child = "running"
            /\ execs'[e].promise =
                 [state |-> "fulfilled",
                  value |-> [success |-> FALSE, exit_code |-> "null",
                             stdout |-> execs[e].out, stderr |-> execs[e].err,
                             timeout |-> TRUE]]
       /\ (returnExecution(e) /\ execs[e].killer = "fired"
             /\ execs[e].promise.state = "fulfilled") =>
            /\ lastResult'.timeout /\ ~lastResult'.success
            /\ lastResult'.exit_code = "null"
            /\ lastResult'.stdout = execs[e].promise.value.stdout
            /\ lastResult'.stderr = execs[e].promise.value.stderr]_vars

\* A timed-out call returned its partial output while the child still runs
C10_Witness ==
  \E e \in ExecSlots :
    /\ lastResult.op = "execute_command" /\ ~lastResult.thrown
    /\ "timeout" \in DOMAIN lastResult
    /\ lastResult.timeout /\ lastResult.exit_code = "null"
    /\ lastResult.stdout = <<"a","\n">>
    /\ execs[e].pc = "returned" /\ execs[e].child = "running"

\* C11: when a running child closes while the timer is still armed, run()
\* clears the timer, truncates stdout and stderr to MAX_LINES, and settles
\* with timeout:false, exit_code the child's exit code and success exactly
\* when that code is 0; execute hands that result to the caller.
C11_CloseBeforeTimeout ==
  [][\A e \in ExecSlots :
       /\ \A code \in {"0", "1"} :
            (onClose(e, code) /\ execs[e].child = "running"
               /\ execs[e].killer = "armed") =>
              /\ execs'[e].killer = "cleared"
              /\ execs'[e].promise =
                   [state |-> "fulfilled",
                    value |-> [success |-> (code = "0"), exit_code |-> code,
                               stdout |-> truncate(execs[e].out),
                               stderr |-> truncate(execs[e].err),
                               timeout |-> FALSE]]
       /\ (returnExecution(e) /\ execs[e].killer = "cleared"
             /\ execs[e].promise.state = "fulfilled") =>
            /\ ~lastResult'.timeout
            /\ lastResult'.exit_code \in {"0", "1"}
            /\ lastResult'.success <=> lastResult'.exit_code = "0"
            /\ lastResult'.stdout = execs[e].promise.value.stdout
            /\ lastResult'.stderr = execs[e].promise.value.stderr]_vars

\* A child that printed on stderr and exited with code 1 before the timeout
C11_Witness ==
  \E e \in ExecSlots :
    /\ lastResult.op = "execute_command" /\ ~lastResult.thrown
    /\ "timeout" \in DOMAIN lastResult
    /\ ~lastResult.timeout /\ lastResult.exit_code = "1" /\ ~lastResult.success
    /\ lastResult.stderr = truncate(<<"e","\n">>)
    /\ execs[e].pc = "returned" /\ execs[e].killer = "cleared"

\* The lines of a text: the pieces between newlines, where the newline that
\* ends the text ends its last line and starts no further one.
C12_Lines(text) ==
  LET pieces == SplitOn(text, "\n", <<>>) IN
  IF pieces[Len(pieces)] = <<>> THEN SubSeq(pieces, 1, Len(pieces) - 1) ELSE pieces

C12_Expected(text) ==
  IF Len(C12_Lines(text)) <= MAX_LINES THEN text
  ELSE Join(SubSeq(C12_Lines(text), 1, MAX_LINES), <<"\n">>) \o <<"\n">>
         \o TruncatedMarker(Len(C12_Lines(text)) - MAX_LINES)

\* C12: truncate(text) returns a text of more than MAX_LINES lines as its
\* first MAX_LINES lines followed by the marker line
\* '... (truncated k lines)', k the number of omitted lines, and returns a
\* text of at most MAX_LINES lines unchanged, a newline-terminated text of
\* exactly MAX_LINES lines included.
C12_TruncateKeepsLimit ==
  [][\A e \in ExecSlots, code \in {"0", "1"} :
       onClose(e, code) => execs'[e].out = C12_Expected(execs[e].out)]_vars

\* C13: every execute call that passed validation (its child was spawned)
\* eventually hands a result to the caller, the promise of run() settled by
\* a close, the timeout or a spawn error, also when the child never closes
\* and ignores the signal.
C13_ExecuteReturns ==
  \A e \in ExecSlots :
    (execs[e].pc = "running") ~>
      (execs[e].pc = "returned" /\ execs[e].promise.state # "pending"
         /\ lastResult.op = "execute_command")

\* The call returned while the signalled child is still running
C13_Witness ==
  \E e \in ExecSlots :
    /\ execs[e].pc = "returned" /\ execs[e].child = "running"
    /\ execs[e].killed /\ execs[e].signals = 1
    /\ Len(auditLog) = 1 /\ auditLog[1].timeout

\* The lines of the file that contain the query, oldest first
C18_Matching(q) ==
  SelectSeq(FileLines(auditLog), LAMBDA l : StringIncludes(LineText(l), q))

\* The last n elements of an array (all of them when it has fewer)
C18_Last(arr, n) ==
  SubSeq(arr, IF Len(arr) > n THEN Len(arr) - n + 1 ELSE 1, Len(arr))

\* C18: history(q, limit), for every query and every limit >= 0, returns in
\* file order the records parsed from the last `limit` lines that contain
\* q, dropping the lines that do not parse: never more than `limit`
\* records, and none when the file does not exist.
C18_SearchHistory ==
  [][\A q \in Queries, limit \in 0..MaxLimit :
       history(q, limit) =>
         /\ lastResult'.matches =
              SelectSeq(C18_Last(C18_Matching(q), limit), LAMBDA l : ~IsCorrupt(l))
         /\ Len(lastResult'.matches) <= limit
         /\ auditLog = <<>> => lastResult'.matches = <<>>]_vars

\* C14: when the child cannot be created (it emits 'error'), run() rejects;
\* execute passes a failed ExecutionRecord (success:false, the error) to
\* audit(), which appends it, writes an ERROR line, and returns
\* {success:false, error} with no exit_code.
C14_SpawnError ==
  [][\A e \in ExecSlots :
       /\ onError(e) => execs'[e].promise = [state |-> "rejected", error |-> "spawn"]
       /\ (execs[e].promise.state = "rejected" /\ execs[e].pc = "running"
             /\ execs'[e].pc # "running") =>
            /\ execs'[e].pc = "return"
            /\ auditLog' = Append(auditLog,
                 [command |-> execs[e].command, cwd |-> execs[e].cwd,
                  success |-> FALSE, error |-> "spawn"])
            /\ errorLog' = errorLog
       /\ (execs[e].promise.state = "rejected" /\ execs[e].pc = "return"
             /\ execs'[e].pc # "return") =>
            /\ execs'[e].pc = "returned"
            /\ lastResult'.op = "execute_command"
            /\ ~lastResult'.success /\ ~lastResult'.thrown
            /\ lastResult'.error = Reason("execution error", <<>>)
            /\ "exit_code" \notin DOMAIN lastResult'
            /\ errorLog' = errorLog + 1]_vars

\* A failed spawn was audited, logged and reported
C14_Witness ==
  /\ lastResult.op = "execute_command" /\ ~lastResult.success
  /\ "error" \in DOMAIN lastResult /\ "exit_code" \notin DOMAIN lastResult
  /\ lastResult.error = Reason("execution error", <<>>)
  /\ errorLog = 1
  /\ auditLog = <<[command |-> <<" "," ","l","s"," "," ","/","w","/","f"," ">>,
                   cwd |-> <<"/","w">>, success |-> FALSE, error |-> "spawn"]>>

\* Audited calls that have not reached their audit() yet
C15_Unaudited ==
  Cardinality({ e \in ExecSlots : execs[e].pc = "running" })
    + Cardinality({ k \in CfgSlots : cfgOps[k].pc \in {"persist", "audit"} })

\* C15: every execute call that spawned a child appends exactly one
\* ExecutionRecord (after a close, a timeout or a spawn error) and every
\* successful allowCommand, blockCommand, resetConfig and importConfig
\* appends exactly one ConfigChangeRecord, in each case before the call's
\* result is returned.
C15_AuditedExactlyOnce ==
  [][/\ Len(auditLog') = begun' - C15_Unaudited'
     /\ \A e \in ExecSlots :
          /\ (execs[e].pc = "running" /\ execs'[e].pc # "running") =>
               /\ execs'[e].pc = "return"
               /\ auditLog' = Append(auditLog, ExecutionRecord(execs[e]))
          /\ (execs[e].pc # "returned" /\ execs'[e].pc = "returned") =>
               /\ execs[e].pc = "return"
               /\ auditLog' = auditLog
     /\ \A k \in CfgSlots :
          /\ (cfgOps[k].pc = "audit" /\ cfgOps'[k].pc # "audit") =>
               /\ cfgOps'[k].pc = "return"
               /\ auditLog' = Append(auditLog, ConfigChangeRecord(cfgOps[k]))
               /\ IsConfigChange(auditLog'[Len(auditLog')])
          /\ (cfgOps[k].kind # "idle" /\ cfgOps'[k].kind = "idle") =>
               /\ cfgOps[k].pc = "return"
               /\ lastResult'.success
               /\ auditLog' = auditLog]_vars

\* A reset was audited once, and its result returned after that
C15_Witness ==
  /\ begun = 1 /\ Len(auditLog) = 1
  /\ auditLog[1] = [action |-> "reset_config", success |-> TRUE,
                    oldAllowOverrides |-> <<>>, oldBlockOverrides |-> <<>>]
  /\ lastResult.op = "reset_config" /\ lastResult.success

\* C16: the audit log is append-only: over every step of every tool
\* (execute, the configuration changes, search_command_history, the
\* read-only queries) the log before the step is a prefix of the log after
\* it.
C16_AppendOnly ==
  [][/\ Len(auditLog) <= Len(auditLog')
     /\ SubSeq(auditLog', 1, Len(auditLog)) = auditLog]_vars

\* A record was appended behind the earlier session's and then searched
C16_Witness ==
  /\ Len(auditLog) = 2
  /\ auditLog[1] = [action |-> "block_command", success |-> TRUE, command |-> rm]
  /\ auditLog[2] = [action |-> "allow_command", success |-> TRUE, command |-> rm]
  /\ lastResult.op = "search_command_history"
  /\ lastResult.matches = <<auditLog[2]>>

\* C17: a failed append to the audit log changes nothing but the log: the
\* call goes on exactly as after a successful append, the policy state is
\* untouched, and the call returns the result it returns otherwise.
C17_AuditFailureSwallowed ==
  [][/\ \A k \in CfgSlots :
          /\ auditConfigFailed(k) =>
               /\ cfgOps' = [cfgOps EXCEPT ![k].pc = "return"]
               /\ UNCHANGED <<loaded, allowOverrides, blockOverrides, configFile,
                              auditLog, lastResult, execs, errorLog>>
          /\ returnConfig(k) =>
               /\ lastResult'.op = cfgOps[k].kind
               /\ lastResult'.success /\ ~lastResult'.thrown
               /\ lastResult'.currentAllowed = Len(getCurrentAllowed)
               /\ lastResult'.currentBlocked = Len(getCurrentBlocked)
               /\ UNCHANGED <<allowOverrides, blockOverrides, configFile>>
     /\ \A e \in ExecSlots :
          /\ auditExecutionFailed(e) =>
               /\ execs' = [execs EXCEPT ![e].pc = "return"]
               /\ UNCHANGED <<loaded, allowOverrides, blockOverrides, configFile,
                              auditLog, lastResult, cfgOps, errorLog>>
          /\ returnExecution(e) =>
               /\ ~lastResult'.thrown
               /\ execs[e].promise.state = "fulfilled" =>
                    /\ lastResult'.success = execs[e].promise.value.success
                    /\ lastResult'.exit_code = execs[e].promise.value.exit_code
                    /\ lastResult'.timeout = execs[e].promise.value.timeout
               /\ execs[e].promise.state = "rejected" => ~lastResult'.success]_vars

\* allow_command succeeded although its audit record could not be written
C17_Witness ==
  /\ begun = 1 /\ auditLog = <<>>
  /\ lastResult.op = "allow_command" /\ lastResult.success
  /\ allowOverrides = <<rm>> /\ configFile = File(<<rm>>, <<>>)
  /\ NoCfgInFlight

\* C19: loadConfig never fails its caller: over a missing or unparseable
\* file it installs empty override sets and persists that default config,
\* over a readable file it installs the override sets stored in it.
C19_LoadNeverFails ==
  [][/\ loadPc' # "rejected"
     /\ LoadConfigRead =>
          IF configFile.kind = "ok"
          THEN /\ allowOverrides' = configFile.allowOverrides
               /\ blockOverrides' = configFile.blockOverrides
               /\ loadPc' = "done"
          ELSE /\ allowOverrides' = <<>> /\ blockOverrides' = <<>>
               /\ getCurrentAllowed' = DEFAULT_ALLOWED
               /\ getCurrentBlocked' = DEFAULT_BLOCKED
               /\ loadPc' = "saving"
     /\ (loadPc = "saving" /\ loadPc' # "saving") =>
          /\ loadPc' = "done"
          /\ configFile' = File(<<>>, <<>>)]_vars

\* C20: when the write of the config file fails during allowCommand,
\* blockCommand, resetConfig or importConfig, the call does not report
\* success, the caller gets the failure, no ConfigChangeRecord is appended
\* for the call, and the engine takes the next call.
C20_PersistFailureSurfaced ==
  [][\A k \in CfgSlots :
       saveConfigFailed(k) =>
         /\ lastResult'.op = cfgOps[k].kind
         /\ ~lastResult'.success
         /\ lastResult'.error = "EIO"
         /\ auditLog' = auditLog
         /\ cfgOps'[k] = Idle
         /\ Len(auditLog') < begun']_vars

\* allow_command was rejected by a failed write and left no audit record
C20_Witness ==
  /\ lastResult = Thrown("allow_command", "EIO")
  /\ auditLog = <<>> /\ begun = 1
  /\ configFile = File(<<>>, <<>>)
  /\ NoCfgInFlight

\* C21: the dangerous-command check never refuses: allowCommand of any
\* valid name x is accepted and updates the override sets as for any other
\* name, whether or not x is in the dangerous list, so that x is effectively
\* allowed and not effectively blocked when the call returns; the success
\* result carries a warning exactly when x is in that list.
C21_DangerousOnlyWarns ==
  /\ [](\A k \in CfgSlots :
          cfgOps[k].kind = "allow_command" =>
            /\ cfgOps[k].command \in CurrentAllowedSet
            /\ cfgOps[k].command \notin CurrentBlockedSet)
  /\ [][\A k \in CfgSlots :
          /\ \A command \in CommandInputs :
               (allowCommand(k, command) /\ NamePattern(Trim(command))) =>
                 /\ cfgOps'[k].kind = "allow_command"
                 /\ cfgOps'[k].command = Trim(command)
                 /\ Range(blockOverrides') = Range(blockOverrides) \ {Trim(command)}
                 /\ Range(allowOverrides') =
                      Range(allowOverrides)
                        \cup ({Trim(command)} \ Range(DEFAULT_ALLOWED))
          /\ (returnConfig(k) /\ cfgOps[k].kind = "allow_command") =>
               /\ lastResult'.op = "allow_command" /\ lastResult'.success
               /\ lastResult'.warning <=>
                    cfgOps[k].command \in
                      { rm, <<"s","u","d","o">>, <<"d","d">>, <<"m","k","f","s">>,
                        <<"f","d","i","s","k">>, <<"s","h","u","t","d","o","w","n">>,
                        <<"r","e","b","o","o","t">> }]_vars

\* allow_command of rm succeeded with a warning and rm is effectively allowed
C21_Witness ==
  /\ lastResult.op = "allow_command" /\ lastResult.success /\ lastResult.warning
  /\ rm \in CurrentAllowedSet /\ rm \notin CurrentBlockedSet
  /\ auditLog # <<>>
  /\ auditLog[Len(auditLog)] = [action |-> "allow_command", success |-> TRUE, command |-> rm]

\* C22: resetConfig with confirm false (or absent, which the test !confirm
\* treats alike) returns the refusal {success:false, error} and leaves the
\* override sets, the config file and the audit log unchanged, and starts
\* no change.
C22_ResetNeedsConfirm ==
  [][\A k \in CfgSlots :
       resetConfig(k, FALSE) =>
         /\ lastResult' = Failure("reset_config", "Reset requires confirmation")
         /\ UNCHANGED <<allowOverrides, blockOverrides, configFile, auditLog,
                        cfgOps>>]_vars

\* An unconfirmed reset was refused while overrides were in place
C22_Witness ==
  /\ lastResult = Failure("reset_config", "Reset requires confirmation")
  /\ allowOverrides = <<rm>> /\ blockOverrides = <<ls>>
  /\ configFile = File(<<rm>>, <<ls>>)
  /\ Len(auditLog) = 1 /\ NoCfgInFlight

\* A name of one or more characters out of [A-Za-z0-9_-]
C23_ValidName(cmd) == cmd # <<>> /\ Range(cmd) \subseteq NameChars

\* C23: allowCommand and blockCommand answer a command that is empty after
\* trimming, or does not match [A-Za-z0-9_-]+, with {success:false, error},
\* and leave the override sets, the config file and the audit log unchanged.
C23_InvalidNameRejected ==
  [][\A k \in CfgSlots, command \in CommandInputs :
       /\ (allowCommand(k, command) /\ ~C23_ValidName(Trim(command))) =>
            /\ lastResult' = Failure("allow_command",
                 IF Trim(command) = <<>> THEN "Command cannot be empty"
                 ELSE "Invalid command format")
            /\ UNCHANGED <<allowOverrides, blockOverrides, configFile, auditLog,
                           cfgOps>>
       /\ (blockCommand(k, command) /\ ~C23_ValidName(Trim(command))) =>
            /\ lastResult' = Failure("block_command",
                 IF Trim(command) = <<>> THEN "Command cannot be empty"
                 ELSE "Invalid command format")
            /\ UNCHANGED <<allowOverrides, blockOverrides, configFile, auditLog,
                           cfgOps>>]_vars

\* block_command of 'r m' was rejected while overrides were in place
C23_Witness ==
  /\ lastResult = Failure("block_command", "Invalid command format")
  /\ allowOverrides = <<rm>> /\ blockOverrides = <<ls>>
  /\ configFile = File(<<rm>>, <<ls>>)
  /\ Len(auditLog) = 1 /\ NoCfgInFlight

\* What a record of the audit log carries: the command(s) a change is about,
\* the override sets before it, and the override sets after it (for a reset
\* the kind of the record says what they are).
C24_HasCommands(rec) ==
  \/ "command" \in DOMAIN rec
  \/ "newConfig" \in DOMAIN rec
  \/ "oldAllowOverrides" \in DOMAIN rec

C24_HasBefore(rec) ==
  \/ "oldConfig" \in DOMAIN rec
  \/ {"oldAllowOverrides", "oldBlockOverrides"} \subseteq DOMAIN rec

C24_HasAfter(rec) ==
  \/ "newConfig" \in DOMAIN rec
  \/ rec.action = "reset_config"

\* C24: every ConfigChangeRecord appended to the audit log (allow_command,
\* block_command, reset_config, import_config) carries the affected
\* command(s) and the override sets as they were before the change and as
\* they are after it.
C24_RecordCarriesSnapshots ==
  [][\A k \in CfgSlots :
       auditConfig(k) =>
         /\ Len(auditLog') = Len(auditLog) + 1
         /\ IsConfigChange(auditLog'[Len(auditLog')])
         /\ C24_HasCommands(auditLog'[Len(auditLog')])
         /\ C24_HasBefore(auditLog'[Len(auditLog')])
         /\ C24_HasAfter(auditLog'[Len(auditLog')])
         /\ "newConfig" \in DOMAIN auditLog'[Len(auditLog')] =>
              auditLog'[Len(auditLog')].newConfig =
                [allowOverrides |-> allowOverrides,
                 blockOverrides |-> blockOverrides]]_vars

\* C25: the audit-logging flag the host passes at startup controls the
\* auditing of executions: with the flag disabled execute appends no
\* ExecutionRecord, with it enabled execute appends one for each validated
\* execution, when run() has settled.
C25_FlagControlsAudit ==
  [][/\ LOG_ALL_COMMANDS' = LOG_ALL_COMMANDS
     /\ \A e \in ExecSlots :
          (execs[e].pc = "running" /\ execs'[e].pc # "running") =>
            IF LOG_ALL_COMMANDS
            THEN auditLog' = Append(auditLog, ExecutionRecord(execs[e]))
            ELSE auditLog' = auditLog
     /\ ~LOG_ALL_COMMANDS => auditLog' = auditLog]_vars

C26_WitnessEmpty ==
  /\ lastResult.op = "execute_command" /\ ~lastResult.success
  /\ lastResult.error = Reason("not allowed", <<>>)

\* How often a name occurs in an override array
C27_Count(arr, x) == Cardinality({ i \in 1..Len(arr) : arr[i] = x })

\* The membership of every name but x is the same before and after the step
C27_OthersKept(x) ==
  \A y \in Names \ {x} :
    /\ Includes(allowOverrides', y) <=> Includes(allowOverrides, y)
    /\ Includes(blockOverrides', y) <=> Includes(blockOverrides, y)

\* C27: for every valid name x, after allowCommand(x) x is not in
\* blockOverrides and is in allowOverrides, once, exactly when x is not in
\* DEFAULT_ALLOWED; after blockCommand(x) x is not in allowOverrides and is
\* in blockOverrides, once, exactly when x is not in DEFAULT_BLOCKED; the
\* membership of every other name in both override sets is unchanged.
C27_OverrideUpdate ==
  [][\A k \in CfgSlots, command \in CommandInputs :
       /\ (allowCommand(k, command) /\ C23_ValidName(Trim(command))) =>
            /\ ~Includes(blockOverrides', Trim(command))
            /\ Includes(allowOverrides', Trim(command))
                 <=> ~Includes(DEFAULT_ALLOWED, Trim(command))
            /\ C27_Count(allowOverrides', Trim(command)) <= 1
            /\ C27_OthersKept(Trim(command))
       /\ (blockCommand(k, command) /\ C23_ValidName(Trim(command))) =>
            /\ ~Includes(allowOverrides', Trim(command))
            /\ Includes(blockOverrides', Trim(command))
                 <=> ~Includes(DEFAULT_BLOCKED, Trim(command))
            /\ C27_Count(blockOverrides', Trim(command)) <= 1
            /\ C27_OthersKept(Trim(command))]_vars

\* The effective sets as section 3 of the specification derives them from
\* the override sets in place
C28_Allowed ==
  (Range(DEFAULT_ALLOWED) \ Range(blockOverrides)) \cup Range(allowOverrides)

C28_Blocked ==
  (Range(DEFAULT_BLOCKED) \ Range(allowOverrides)) \cup Range(blockOverrides)

\* C28: getCurrentAllowed() and getCurrentBlocked() are, in every state,
\* (DEFAULT_ALLOWED minus blockOverrides) union allowOverrides and
\* (DEFAULT_BLOCKED minus allowOverrides) union blockOverrides of the
\* override sets in place, and every execute is judged against them: after
\* an allow, block, reset or import has returned, never against the policy
\* before it.
C28_PolicyNeverStale ==
  /\ [](/\ CurrentAllowedSet = C28_Allowed
        /\ CurrentBlockedSet = C28_Blocked)
  /\ [][\A e \in ExecSlots, command \in FreshCommands, cwd \in WorkingDirs :
          execute(e, command, cwd) =>
            IF C3_Parts(command)[1] \in C28_Blocked
            THEN /\ lastResult' = Failure("execute_command",
                      Reason("blocked command", C3_Parts(command)[1]))
                 /\ execs' = execs
            ELSE IF C3_Parts(command)[1] \notin C28_Allowed
            THEN /\ lastResult' = Failure("execute_command",
                      Reason("not allowed", C3_Parts(command)[1]))
                 /\ execs' = execs
            ELSE \/ execs'[e].pc = "running" /\ lastResult' = lastResult
                 \/ /\ execs' = execs
                    /\ \E i \in 2..Len(C3_Parts(command)) :
                         lastResult' = Failure("execute_command",
                           Reason("path not allowed", C3_Parts(command)[i]))]_vars

\* rm was spawned by the first execute after allow_command of rm returned
C28_Witness ==
  /\ lastResult.op = "allow_command" /\ lastResult.success
  /\ auditLog = <<[action |-> "allow_command", success |-> TRUE, command |-> rm]>>
  /\ \E e \in ExecSlots : execs[e].pc = "running" /\ execs[e].command = rm

\* ls was denied as blocked by the first execute after block_command of ls
C28_WitnessBlocked ==
  /\ lastResult = Failure("execute_command", Reason("blocked command", ls))
  /\ auditLog = <<[action |-> "block_command", success |-> TRUE, command |-> ls]>>
  /\ NoCallInFlight

\* C29: every configuration change (allowCommand, blockCommand,
\* resetConfig(true), importConfig) goes through its steps in the order
\* validate, mutate the override sets, persist, append the
\* ConfigChangeRecord, return: nothing is written before the input passed
\* validation, the record is appended only when the config file holds the
\* new override sets, and the result is returned after that, its
\* currentAllowed/currentBlocked the sizes of the effective sets the
\* change produced.
C29_ChangeOrder ==
  [][/\ \A k \in CfgSlots :
          /\ (cfgOps[k].kind = "idle" /\ cfgOps'[k].kind # "idle") =>
               /\ cfgOps'[k].pc = "persist"
               /\ cfgOps'[k].kind \in {"allow_command", "block_command"} =>
                    C23_ValidName(cfgOps'[k].command)
               /\ UNCHANGED <<configFile, auditLog, lastResult>>
          /\ (cfgOps[k].pc = "persist" /\ cfgOps'[k].pc # "persist") =>
               /\ cfgOps'[k].pc = "audit"
               /\ configFile' = File(allowOverrides, blockOverrides)
               /\ UNCHANGED <<allowOverrides, blockOverrides, auditLog, lastResult>>
          /\ (cfgOps[k].pc = "audit" /\ cfgOps'[k].pc # "audit") =>
               /\ cfgOps'[k].pc = "return"
               /\ configFile = File(allowOverrides, blockOverrides)
               /\ Len(auditLog') = Len(auditLog) + 1
               /\ SubSeq(auditLog', 1, Len(auditLog)) = auditLog
               /\ IsConfigChange(auditLog'[Len(auditLog')])
               /\ auditLog'[Len(auditLog')].action = cfgOps[k].kind
               /\ UNCHANGED <<allowOverrides, blockOverrides, configFile, lastResult>>
          /\ (cfgOps[k].pc = "return" /\ cfgOps'[k].pc # "return") =>
               /\ cfgOps'[k] = Idle
               /\ lastResult'.op = cfgOps[k].kind /\ lastResult'.success
               /\ lastResult'.currentAllowed = Cardinality(C28_Allowed)
               /\ lastResult'.currentBlocked = Cardinality(C28_Blocked)
               /\ auditLog[Len(auditLog)].action = cfgOps[k].kind
               /\ UNCHANGED <<allowOverrides, blockOverrides, configFile, auditLog>>
     /\ configFile' # configFile => \E k \in CfgSlots : cfgOps[k].pc = "persist"
     /\ auditLog' # auditLog => \E k \in CfgSlots : cfgOps[k].pc = "audit"]_vars

\* block_command of ls was persisted, audited and answered with the new sizes
C29_Witness ==
  /\ lastResult.op = "block_command" /\ lastResult.success
  /\ lastResult.currentAllowed = Len(DEFAULT_ALLOWED) - 1
  /\ lastResult.currentBlocked = Len(DEFAULT_BLOCKED) + 1
  /\ blockOverrides = <<ls>> /\ configFile = File(<<>>, <<ls>>)
  /\ auditLog = <<[action |-> "block_command", success |-> TRUE, command |-> ls]>>
  /\ NoCfgInFlight

\* The state of spec section 4.3 an execution slot is in: Pending before
\* execute has spawned, Running while the promise of run() is pending, and
\* the terminal state named by the way that promise settled.
C30_State(x) ==
  IF x.pc = "free" THEN "Pending"
  ELSE IF x.promise.state = "pending" THEN "Running"
  ELSE IF x.promise.state = "rejected" THEN "SpawnFailed"
  ELSE IF x.promise.value.timeout THEN "TimedOut"
  ELSE "Completed"

C30_Terminal == {"Completed", "TimedOut", "SpawnFailed"}

\* C30: an execution moves only Pending -> Running -> Completed, TimedOut
\* or SpawnFailed; a child is spawned only by the execute call that begins
\* the execution, one per call, never again after a failure or a timeout;
\* and an execution that reached a terminal state keeps that state and its
\* outcome until the call has returned and its slot is given up.
C30_ExecutionStates ==
  [][\A e \in ExecSlots :
       LET from == C30_State(execs[e])
           to   == C30_State(execs'[e])
       IN /\ from = "Pending" => to \in {"Pending", "Running"}
          /\ from = "Running" => to \in {"Running"} \cup C30_Terminal
          /\ from \in C30_Terminal =>
               \/ to = from /\ execs'[e].promise = execs[e].promise
               \/ releaseExecution(e)
          /\ (execs'[e].child = "running" /\ execs[e].child # "running") =>
               /\ from = "Pending" /\ to = "Running"
               /\ begun' = begun + 1
          /\ (from # "Pending" /\ begun' # begun) =>
               \E other \in ExecSlots \ {e} : execs'[other].child = "running"
                                                /\ execs[other].pc = "free"
          /\ (from # "Pending" /\ execs'[e].pc # "free") =>
               /\ execs'[e].command = execs[e].command
               /\ execs'[e].child # execs[e].child => execs[e].child # "closed"
               /\ execs'[e].killer # execs[e].killer => execs[e].killer = "armed"]_vars

\* A spawn that failed: the call returned the error, the close event that
\* followed changed nothing, and no second child was started
C30_Witness ==
  \E e \in ExecSlots :
    /\ C30_State(execs[e]) = "SpawnFailed"
    /\ execs[e].child = "closed" /\ execs[e].killer = "cleared"
    /\ execs[e].pc = "returned" /\ begun = 1
    /\ lastResult.op = "execute_command" /\ ~lastResult.success

\* The close event of a killed child reached a call that had timed out
C30_WitnessTimedOut ==
  \E e \in ExecSlots :
    /\ C30_State(execs[e]) = "TimedOut"
    /\ execs[e].child = "closed" /\ execs[e].killed

\* C31: a child is signalled only by the timer of its own execution: each
\* execution sends at most one signal (the SIGTERM of the timer callback,
\* the only call of kill in the program), a child that closed before its
\* timeout is never signalled, and no configuration call and no event of
\* another execution signals a child or ends it.
C31_OnlyTimeoutSignals ==
  [][\A e \in DOMAIN execs :
       /\ execs'[e].signals <= 1
       /\ (execs'[e].pc # "free"
             /\ (execs'[e].signals # execs[e].signals
                   \/ execs'[e].killed # execs[e].killed)) =>
            /\ execs[e].killer = "armed" /\ execs'[e].killer = "fired"
            /\ execs'[e].signals = execs[e].signals + 1
            /\ \A other \in DOMAIN execs \ {e} : execs'[other] = execs[other]
            /\ UNCHANGED cfgvars
       /\ (execs[e].child = "closed" /\ execs[e].killer = "cleared") =>
            /\ execs[e].signals = 0 /\ ~execs[e].killed
            /\ execs'[e].pc # "free" => execs'[e].signals = 0 /\ ~execs'[e].killed
       /\ (execs[e].child = "running" /\ execs'[e].child # "running") =>
            /\ execs'[e].child \in {"closed", "failed"}
            /\ execs'[e].pc = execs[e].pc
            /\ \A other \in DOMAIN execs \ {e} : execs'[other] = execs[other]
            /\ UNCHANGED cfgvars]_vars

\* ls was blocked, persisted and answered while a child of ls was running:
\* the child runs on, unsignalled
C31_Witness ==
  /\ lastResult.op = "block_command" /\ lastResult.success
  /\ blockOverrides = <<ls>> /\ configFile = File(<<>>, <<ls>>)
  /\ \E e \in DOMAIN execs :
       /\ execs[e].child = "running" /\ StartsWith(execs[e].command, ls)
       /\ execs[e].signals = 0 /\ ~execs[e].killed /\ execs[e].killer = "armed"

\* One execution timed out and signalled its child; the other one's child
\* is still running, unsignalled
C31_WitnessOther ==
  \E e, other \in DOMAIN execs :
    /\ execs[e].signals = 1 /\ execs[e].killed /\ execs[e].killer = "fired"
    /\ execs[other].child = "running" /\ execs[other].signals = 0
    /\ ~execs[other].killed

\* No tool call fails on this.allowOverrides / this.blockOverrides being
\* undefined
C34_NoUninitialised ==
  [](lastResult.thrown => lastResult.error # "TypeError")

\* A step of loadConfig taken after a configuration change was made and
\* persisted leaves the override sets and the config file as that change
\* made them
C34_LoadKeepsChanges ==
  [][(/\ loadPc' # loadPc
      /\ \/ \E k \in CfgSlots : cfgOps[k].pc \in {"audit", "return"}
         \/ \E i \in 1..Len(auditLog) : IsConfigChange(auditLog[i])) =>
       UNCHANGED <<allowOverrides, blockOverrides, configFile>>]_vars

\* C34: the load started by the constructor is over before any tool runs:
\* no execute, list, status or configuration call finds the override sets
\* undefined, and no step of loadConfig undoes an override change made
\* earlier in the session.
C34_LoadBeforeTools == C34_NoUninitialised /\ C34_LoadKeepsChanges

\* C32: whenever no configuration call is in flight (in the model every
\* write succeeds, so every call made so far reported success), the config
\* file holds the override sets that are in memory, also when the writes of
\* several calls overlapped.
C32_DurableAtQuiescence ==
  (\A k \in DOMAIN cfgOps : cfgOps[k].kind = "idle") =>
    /\ configFile.kind = "ok"
    /\ Range(configFile.allowOverrides) = Range(allowOverrides)
    /\ Range(configFile.blockOverrides) = Range(blockOverrides)

\* C33: validation and spawn are one step of execute: whatever
\* configuration calls are in flight, a child is spawned only in a step in
\* which the base command is in the effective allowed set and not in the
\* effective blocked set of the override sets in memory, and that step
\* changes neither set.
C33_AllowedAtSpawn ==
  [][\A e \in DOMAIN execs :
       (execs[e].child # "running" /\ execs'[e].child = "running") =>
         /\ C3_Parts(execs'[e].command)[1] \in C28_Allowed
         /\ C3_Parts(execs'[e].command)[1] \notin C28_Blocked
         /\ UNCHANGED <<allowOverrides, blockOverrides>>
         /\ execs[e].pc = "free"]_vars

\* rm was spawned while the allow_command that allowed it was still waiting
\* for its write of the config file
C33_Witness ==
  /\ \E e \in DOMAIN execs :
       /\ execs[e].pc = "running" /\ execs[e].child = "running"
       /\ C3_Parts(execs[e].command)[1] = rm
  /\ \E k \in DOMAIN cfgOps :
       cfgOps[k].kind = "allow_command" /\ cfgOps[k].pc = "persist"
  /\ configFile = File(<<>>, <<>>)

\* A text of at most MAX_LINES lines, or of MAX_LINES lines and the marker
C35_Bounded(text) ==
  \/ Len(C12_Lines(text)) <= MAX_LINES
  \/ /\ Len(C12_Lines(text)) = MAX_LINES + 1
     /\ \E k \in 1..(MaxText + 1) :
          C12_Lines(text)[MAX_LINES + 1] = TruncatedMarker(k)

\* C35: every result run() settles with, after a close and after the
\* timeout alike, has a stdout and a stderr of at most MAX_LINES lines plus
\* at most one marker line.
C35_OutputBounded ==
  \A e \in ExecSlots :
    execs[e].promise.state = "fulfilled" =>
      /\ C35_Bounded(execs[e].promise.value.stdout)
      /\ C35_Bounded(execs[e].promise.value.stderr)

\* The timer of an execution whose child has closed is not armed, does not
\* fire and sends no signal
C36_DisarmedByClose ==
  /\ [](\A e \in ExecSlots : execs[e].child = "closed" => execs[e].killer # "armed")
  /\ [][\A e \in ExecSlots :
          (execs[e].child = "closed" /\ execs'[e].pc # "free") =>
            /\ execs'[e].killer = execs[e].killer
            /\ execs'[e].signals = execs[e].signals]_vars

\* C36: once an execution is over by a close event or by a spawn error, its
\* timer is disarmed: the timer callback does not run afterwards and sends
\* no signal to a child that has finished or was never started.
C36_TimerDisarmed ==
  /\ [](\A e \in ExecSlots :
          execs[e].child \in {"closed", "failed"} => execs[e].killer # "armed")
  /\ [][\A e \in ExecSlots :
          (execs[e].child \in {"closed", "failed"} /\ execs'[e].pc # "free") =>
            /\ execs'[e].killer = "fired" => execs[e].killer = "fired"
            /\ execs'[e].signals = execs[e].signals]_vars

\* C37: a configuration call that does not report success leaves the
\* override sets in memory as they were before the call, also when the
\* write of the config file fails after the input passed validation. The
\* sets before the call are the empty sets of startup for the first
\* accepted call, and the prior sets kept for the audit record for
\* resetConfig and importConfig.
C37_StateUnchangedOnError ==
  [][\A k \in CfgSlots :
       /\ (cfgOps[k].kind = "idle" /\ cfgOps'[k].kind = "idle"
             /\ lastResult' # lastResult /\ ~lastResult'.success) =>
            UNCHANGED <<allowOverrides, blockOverrides>>
       /\ (cfgOps[k].pc = "persist" /\ cfgOps'[k] = Idle /\ ~lastResult'.success) =>
            /\ begun = 1 =>
                 allowOverrides' = <<>> /\ blockOverrides' = <<>>
            /\ cfgOps[k].kind = "reset_config" =>
                 /\ allowOverrides' = cfgOps[k].oldAllowOverrides
                 /\ blockOverrides' = cfgOps[k].oldBlockOverrides
            /\ cfgOps[k].kind = "import_config" =>
                 /\ allowOverrides' = cfgOps[k].oldConfig.allowOverrides
                 /\ blockOverrides' = cfgOps[k].oldConfig.blockOverrides]_vars

\* C38: listAllowed, status, viewConfig, exportConfig and history (and
\* validate, which is a function of the state) leave the override sets,
\* the config file and the audit log as they are; no step of an execute
\* changes the override sets or the config file, and an execute that
\* validation denies leaves the audit log as it is.
C38_ReadOnlyTools ==
  [][/\ ReadOnlyCall =>
          UNCHANGED <<allowOverrides, blockOverrides, configFile, auditLog>>
     /\ \A e \in ExecSlots :
          /\ \A command \in CommandLines, cwd \in WorkingDirs :
               execute(e, command, cwd) =>
                 /\ UNCHANGED <<allowOverrides, blockOverrides, configFile>>
                 /\ validate(command).denied =>
                      /\ auditLog' = auditLog
                      /\ execs' = execs
                      /\ lastResult' = [op |-> "execute_command", success |-> FALSE,
                                        thrown |-> FALSE, error |-> validate(command)]
          /\ execs'[e] # execs[e] =>
               UNCHANGED <<allowOverrides, blockOverrides, configFile>>]_vars

\* view_config answered after ls was blocked: the change is as it was made
C38_Witness ==
  /\ lastResult.op = "view_config"
  /\ blockOverrides = <<ls>> /\ allowOverrides = <<>>
  /\ configFile = File(<<>>, <<ls>>)
  /\ auditLog = <<[action |-> "block_command", success |-> TRUE, command |-> ls]>>
  /\ NoCallInFlight

\* rm -rf / was denied and left the audit log empty
C38_WitnessDenied ==
  /\ lastResult = Failure("execute_command", Reason("blocked command", rm))
  /\ auditLog = <<>>
  /\ configFile = File(<<>>, <<>>)

C39_Names(entries) == { entries[i].cmd : i \in 1..Len(entries) }

\* C39: what viewConfig answers agrees with the effective policy: the
\* names of breakdown.currentlyAllowed and breakdown.currentlyBlocked are
\* the members of getCurrentAllowed() and getCurrentBlocked(), and
\* summary.totalAllowed and summary.totalBlocked are the lengths of those
\* two breakdown lists.
C39_ViewMatchesPolicy ==
  [][(viewConfig /\ loaded) =>
       /\ C39_Names(lastResult'.currentlyAllowed) = Range(getCurrentAllowed)
       /\ C39_Names(lastResult'.currentlyBlocked) = Range(getCurrentBlocked)
       /\ lastResult'.summary.totalAllowed = Len(lastResult'.currentlyAllowed)
       /\ lastResult'.summary.totalBlocked = Len(lastResult'.currentlyBlocked)]_vars

\* The same for the override sets that allow, block and reset can produce:
\* no name in both, none twice, none that its own default list holds
C39_CleanOverrides ==
  /\ Range(allowOverrides) \cap Range(blockOverrides) = {}
  /\ Cardinality(Range(allowOverrides)) = Len(allowOverrides)
  /\ Cardinality(Range(blockOverrides)) = Len(blockOverrides)

C39_ViewMatchesCleanPolicy ==
  [][(viewConfig /\ loaded /\ C39_CleanOverrides) =>
       /\ C39_Names(lastResult'.currentlyAllowed) = Range(getCurrentAllowed)
       /\ C39_Names(lastResult'.currentlyBlocked) = Range(getCurrentBlocked)
       /\ lastResult'.summary.totalAllowed = Len(lastResult'.currentlyAllowed)
       /\ lastResult'.summary.totalBlocked = Len(lastResult'.currentlyBlocked)]_vars

\* A token that is no absolute path, or whose canonical path is strictly
\* beneath an allowed root
C40_Beneath(tok) ==
  \/ ~StartsWith(tok, <<"/">>)
  \/ \E i \in 1..Len(RAW_ALLOWED_DIRS) :
       StartsWith(pathResolve(tok), pathResolve(RAW_ALLOWED_DIRS[i]) \o <<"/">>)

\* The same, or the canonical path is an allowed root itself
C40_Inside(tok) ==
  \/ C40_Beneath(tok)
  \/ \E i \in 1..Len(RAW_ALLOWED_DIRS) :
       pathResolve(tok) = pathResolve(RAW_ALLOWED_DIRS[i])

\* C40: a command line whose base command passes the command checks and
\* whose absolute-path tokens all resolve to an allowed root or to a place
\* beneath one passes validation (its child is spawned), a token that is an
\* allowed root itself, with or without a trailing separator, included.
C40_RootAccepted ==
  [][\A e \in ExecSlots, command \in ValidateInputs, cwd \in WorkingDirs :
       ( /\ execute(e, command, cwd)
         /\ C3_Parts(command)[1] \in CurrentAllowedSet \ CurrentBlockedSet
         /\ \A i \in 2..Len(C3_Parts(command)) : C40_Inside(C3_Parts(command)[i]) )
       => C3_Spawned(e)]_vars

\* The same for tokens strictly beneath a root
C40_BeneathAccepted ==
  [][\A e \in ExecSlots, command \in ValidateInputs, cwd \in WorkingDirs :
       ( /\ execute(e, command, cwd)
         /\ C3_Parts(command)[1] \in CurrentAllowedSet \ CurrentBlockedSet
         /\ \A i \in 2..Len(C3_Parts(command)) : C40_Beneath(C3_Parts(command)[i]) )
       => C3_Spawned(e)]_vars

\* At most one write of the config file is pending
C32_OneWriteAtATime ==
  \A j, k \in DOMAIN cfgOps :
    (cfgOps[j].pc = "persist" /\ cfgOps[k].pc = "persist") => j = k

\* For writes that do not overlap: as long as no two writes of the config
\* file were pending at the same time, the config file holds the override
\* sets that are in memory whenever no configuration call is in flight.
C32_DurableWhenSerial ==
  []C32_OneWriteAtATime => []C32_DurableAtQuiescence

====
